---- MODULE Spec2Model ----
(***************************************************************************)
(* Model of pymongorm (src/src/orm/mongorm.py): naming conversion, field   *)
(* wrappers and decorators, MongoCollectionBase (to_son / from_dict /      *)
(* get_collection_name) and MongoRepository on top of a document           *)
(* collection.                                                             *)
(*                                                                         *)
(* Python values are tagged pairs <<tag, payload>>:                        *)
(*   <<"none", 0>>  None          <<"int", n>>   int                       *)
(*   <<"str", s>>   str           <<"oid", n>>   bson ObjectId             *)
(* Names that go through the naming converter are sequences of one-letter  *)
(* strings (<<"T","e","m","p">>); an ordered mapping (SON, dict) is a      *)
(* sequence of <<key, value>> pairs in insertion order.                    *)
(***************************************************************************)
EXTENDS Integers, Sequences, FiniteSets, TLC

VARIABLES Defaults, class_attrs, global_field_counter, wrappers,
          docs, repo, db, oid_counter, ret

vars == <<Defaults, class_attrs, global_field_counter, wrappers,
          docs, repo, db, oid_counter, ret>>

----------------------------------------------------------------------------
(* Python values *)

None == <<"none", 0>>
IntV(n) == <<"int", n>>
StrV(s) == <<"str", s>>
Oid(n) == <<"oid", n>>
FloatV(n) == <<"float", n>>
BoolV(b) == <<"bool", b>>
BytesV(n) == <<"bytes", n>>
ListV(q) == <<"list", q>>
(* datetime.datetime(day, time of day) and datetime.date(day) *)
DateTimeV(d, t) == <<"datetime", <<d, t>>>>
DateV(d) == <<"date", d>>
(* bson values *)
BinaryV(n, subtype) == <<"binary", <<n, subtype>>>>
Decimal128V(n) == <<"decimal128", n>>
RegexV(pattern, flags) == <<"regex", <<pattern, flags>>>>
Int64V(n) == <<"int64", n>>
TimestampV(time, inc) == <<"timestamp", <<time, inc>>>>
(* a MongoCollectionBase instance held as a value *)
DocV(doc) == <<"doc", doc>>

IsNone(v) == v[1] = "none"

(* Outcome of a call: a returned value (Return for a tagged Python value,
   ReturnObj for a mapping, a document or a result object) or a raised
   exception. *)
Return(v) == [raised |-> FALSE, exc |-> "", isnone |-> IsNone(v), val |-> v]
ReturnObj(o) == [raised |-> FALSE, exc |-> "", isnone |-> FALSE, val |-> o]
Raise(e) == [raised |-> TRUE, exc |-> e, isnone |-> FALSE, val |-> None]

----------------------------------------------------------------------------
(* Characters and the naming converter (class Defaults, class Common) *)

UpperChars == <<"A","B","C","D","E","F","G","H","I","J","K","L","M",
                "N","O","P","Q","R","S","T","U","V","W","X","Y","Z">>
LowerChars == <<"a","b","c","d","e","f","g","h","i","j","k","l","m",
                "n","o","p","q","r","s","t","u","v","w","x","y","z">>

UpperSet == {UpperChars[i] : i \in 1..Len(UpperChars)}
LowerSet == {LowerChars[i] : i \in 1..Len(LowerChars)}

(* str.lower() and str.upper() of one letter *)
LowerOf == [c \in UpperSet |->
               LowerChars[CHOOSE i \in 1..Len(UpperChars) : UpperChars[i] = c]]
UpperOf == [c \in LowerSet |->
               UpperChars[CHOOSE i \in 1..Len(LowerChars) : LowerChars[i] = c]]

IsUpper(c) == c \in UpperSet
IsLower(c) == c \in LowerSet
IsSpace(c) == c = " "

Lower(c) == IF IsUpper(c) THEN LowerOf[c] ELSE c
Upper(c) == IF IsLower(c) THEN UpperOf[c] ELSE c

LowerText(t) == [i \in 1..Len(t) |-> Lower(t[i])]

RECURSIVE Flatten(_)
Flatten(ss) == IF ss = <<>> THEN <<>> ELSE Head(ss) \o Flatten(Tail(ss))

RECURSIVE Join(_, _)
Join(sep, words) ==
    IF words = <<>> THEN <<>>
    ELSE IF Len(words) = 1 THEN Head(words)
    ELSE Head(words) \o sep \o Join(sep, Tail(words))

(* str.split(sep) for a one-character sep: empty words are kept, and the
   empty text gives one empty word. *)
RECURSIVE SplitOn(_, _, _)
SplitOn(t, sep, cur) ==
    IF t = <<>> THEN <<cur>>
    ELSE IF Head(t) = sep THEN <<cur>> \o SplitOn(Tail(t), sep, <<>>)
    ELSE SplitOn(Tail(t), sep, Append(cur, Head(t)))

(* str.split(): runs of whitespace separate, no empty words. *)
NonEmptyWords(ws) == SelectSeq(ws, LAMBDA w : w # <<>>)
SplitWhitespace(t) == NonEmptyWords(SplitOn(t, " ", <<>>))

(* str.strip() *)
RECURSIVE LStrip(_)
LStrip(t) == IF t # <<>> /\ IsSpace(Head(t)) THEN LStrip(Tail(t)) ELSE t
RECURSIVE RStrip(_)
RStrip(t) ==
    IF t # <<>> /\ IsSpace(t[Len(t)]) THEN RStrip(SubSeq(t, 1, Len(t) - 1)) ELSE t
Strip(t) == RStrip(LStrip(t))

(* re.sub('([A-Z]+)', r' \1', text): a blank before every maximal run of
   capitals. *)
SubUpperRun(t) ==
    Flatten([i \in 1..Len(t) |->
        IF IsUpper(t[i]) /\ (i = 1 \/ ~IsUpper(t[i-1]))
        THEN <<" ", t[i]>> ELSE <<t[i]>>])

(* re.sub('([A-Z][a-z]+)', r' \1', text): a blank before every capital that
   is followed by a lower-case letter. *)
SubCapWord(t) ==
    Flatten([i \in 1..Len(t) |->
        IF IsUpper(t[i]) /\ i < Len(t) /\ IsLower(t[i+1])
        THEN <<" ", t[i]>> ELSE <<t[i]>>])

IndexError == <<"#IndexError">>

(* snake_case as it would be without the two lower() calls. *)
snake_case_keep_case(D, text) ==
    LET t1 == SubCapWord(SubUpperRun(text))
        joined == Join(<<" ">>, SplitWhitespace(t1))
        words == SplitOn(joined, " ", <<>>)
    IN  Join(<<D.name_separator>>, words)

snake_case(D, text) ==
    LET t1 == SubCapWord(SubUpperRun(text))
        joined == Join(<<" ">>, SplitWhitespace(LowerText(t1)))
        words == SplitOn(joined, " ", <<>>)
    IN  Join(<<D.name_separator>>, [i \in 1..Len(words) |-> LowerText(words[i])])

(* The two loops of camel_case / pascal_case over strip_separators[1:]. *)
NormaliseSeparators(D, text) ==
    [i \in 1..Len(text) |->
        IF \E k \in 2..Len(D.strip_separators) : D.strip_separators[k] = text[i]
        THEN D.strip_separators[1] ELSE text[i]]

CaseWords(D, text) ==
    LET ws == SplitOn(NormaliseSeparators(D, text), D.strip_separators[1], <<>>)
    IN  [i \in 1..Len(ws) |-> LowerText(Strip(ws[i]))]

Capitalise(word) == <<Upper(word[1])>> \o Tail(word)

camel_case(D, text) ==
    LET words == CaseWords(D, text)
    IN  IF \E i \in 2..Len(words) : words[i] = <<>> THEN IndexError
        ELSE words[1] \o Flatten([i \in 1..(Len(words) - 1) |-> Capitalise(words[i+1])])

pascal_case(D, text) ==
    LET words == CaseWords(D, text)
    IN  IF \E i \in 1..Len(words) : words[i] = <<>> THEN IndexError
        ELSE Flatten([i \in 1..Len(words) |-> Capitalise(words[i])])

NamingConventions == {"SNAKE_CASE", "CAMEL_CASE", "PASCAL_CASE", "UNCHANGED"}

convert_collection_name(D, name) ==
    IF D.collection_naming_convention = "CAMEL_CASE" THEN camel_case(D, name)
    ELSE IF D.collection_naming_convention = "SNAKE_CASE" THEN snake_case(D, name)
    ELSE IF D.collection_naming_convention = "PASCAL_CASE" THEN pascal_case(D, name)
    ELSE name

convert_field_name(D, name) ==
    IF D.field_naming_convention = "CAMEL_CASE" THEN camel_case(D, name)
    ELSE IF D.field_naming_convention = "SNAKE_CASE" THEN snake_case(D, name)
    ELSE IF D.field_naming_convention = "PASCAL_CASE" THEN pascal_case(D, name)
    ELSE name

(* Attribute and wire names are written as strings; the converter works on
   their characters.  Identifiers lists the getter names of Source, the name
   overrides, and what the converter makes of the getter names. *)
Identifiers ==
    {"address", "age", "alias", "date_created", "id", "key", "name",
     "test", "venue", "_id", "pk", "Address", "Age", "Alias",
     "DateCreated", "dateCreated", "Id", "Key", "Name", "Test", "Venue"}

CharsOf(s) ==
    CASE s = "address" -> <<"a","d","d","r","e","s","s">>
      [] s = "age" -> <<"a","g","e">>
      [] s = "alias" -> <<"a","l","i","a","s">>
      [] s = "date_created" -> <<"d","a","t","e","_","c","r","e","a","t","e","d">>
      [] s = "id" -> <<"i","d">>
      [] s = "key" -> <<"k","e","y">>
      [] s = "name" -> <<"n","a","m","e">>
      [] s = "test" -> <<"t","e","s","t">>
      [] s = "venue" -> <<"v","e","n","u","e">>
      [] s = "_id" -> <<"_","i","d">>
      [] s = "pk" -> <<"p","k">>
      [] s = "Address" -> <<"A","d","d","r","e","s","s">>
      [] s = "Age" -> <<"A","g","e">>
      [] s = "Alias" -> <<"A","l","i","a","s">>
      [] s = "DateCreated" -> <<"D","a","t","e","C","r","e","a","t","e","d">>
      [] s = "dateCreated" -> <<"d","a","t","e","C","r","e","a","t","e","d">>
      [] s = "Id" -> <<"I","d">>
      [] s = "Key" -> <<"K","e","y">>
      [] s = "Name" -> <<"N","a","m","e">>
      [] s = "Test" -> <<"T","e","s","t">>
      [] s = "Venue" -> <<"V","e","n","u","e">>

(* The identifier with the given characters, or "#other" when the
   characters are those of no identifier. *)
StrOfChars(t) ==
    IF \E s \in Identifiers : CharsOf(s) = t
    THEN CHOOSE s \in Identifiers : CharsOf(s) = t
    ELSE "#other"

DefaultsInit ==
    [strip_separators |-> <<"_", "-">>,
     name_separator |-> "_",
     collection_naming_convention |-> "SNAKE_CASE",
     field_naming_convention |-> "CAMEL_CASE"]

----------------------------------------------------------------------------
(* Document classes of the program: each entry of Source is one decorator
   application "@<kind>_field(...) def <func_name>(self): return self.<backing>"
   in the order the module text is executed.  The classes follow the ones the
   repository ships and tests (Temp, TestPersonModel, EmptyCollection,
   TestAddress), cut down to a few fields each.  Event has the date-time
   field and the embedded-document field of TestPersonModel, and a second
   embedded-document field whose setter assigns the backing attribute. *)

NoName == "#None"

Decl(c, f, k, fn, sn, pk, b, st) ==
    [cls |-> c, func_name |-> f, mongo_field_base_cls |-> k, field_name |-> fn,
     skip_none |-> sn, primary_key |-> pk, backing |-> b, setter |-> st]

Source ==
    << Decl("Temp",   "test",  "IntField",      NoName, FALSE, FALSE, "_test", TRUE),
       Decl("TestPerson", "id",    "ObjectIdField", NoName, FALSE, TRUE,  "_id",   TRUE),
       Decl("TestPerson", "name",  "StringField",   NoName, FALSE, FALSE, "_name", TRUE),
       Decl("TestPerson", "age",   "IntField",      NoName, FALSE, FALSE, "_age",  TRUE),
       Decl("Keyed",  "test",  "StringField",   NoName, FALSE, FALSE, "_test", TRUE),
       Decl("Keyed",  "key",   "ObjectIdField", "pk",   TRUE,  TRUE,  "_id",   TRUE),
       Decl("Dup",    "id",    "ObjectIdField", NoName, FALSE, TRUE,  "_id",   FALSE),
       Decl("Dup",    "alias", "StringField",   "_id",  FALSE, FALSE, "_alias", FALSE),
       Decl("TestAddress", "address", "StringField", NoName, FALSE, FALSE, "_address", FALSE),
       Decl("Event",  "address", "EmbeddedDocumentField", NoName, FALSE, FALSE, "_address", TRUE),
       Decl("Event",  "date_created", "DateTimeField", NoName, FALSE, FALSE, "_date_created", TRUE),
       Decl("Event",  "venue", "EmbeddedDocumentField", NoName, FALSE, FALSE, "_venue", TRUE),
       Decl("Labeled", "key",  "ObjectIdField", "_id",  FALSE, FALSE, "_key",  FALSE) >>

Classes == {Source[i].cls : i \in 1..Len(Source)}

(* cls.__name__ *)
ClassName(c) ==
    CASE c = "Temp"   -> <<"T","e","m","p">>
      [] c = "TestPerson" -> <<"T","e","s","t","P","e","r","s","o","n">>
      [] c = "Keyed"  -> <<"K","e","y","e","d">>
      [] c = "Dup"    -> <<"D","u","p">>
      [] c = "TestAddress" -> <<"T","e","s","t","A","d","d","r","e","s","s">>
      [] c = "Event"  -> <<"E","v","e","n","t">>
      [] c = "Labeled" -> <<"L","a","b","e","l","e","d">>

(* Whether the class's __init__ takes skip_none (EmptyCollection does, Temp
   and TestPersonModel do not). *)
CtorTakesSkipNone(c) == c = "Keyed"

(* A setter whose body assigns the property itself (self.address = value),
   as the setters of TestPersonModel.address and .hourly_rate do, instead of
   the backing attribute. *)
SetterRecurses(c, f) == c = "Event" /\ f = "address"

(* TestAddress() *)
TestAddressInit ==
    [cls |-> "TestAddress", skip_none |-> FALSE,
     attrs |-> [_id |-> None, _address |-> StrV("street")]]

(* The instance attributes the class's __init__ sets after
   MongoCollectionBase.__init__ has set _id = None. *)
CtorAttrs(c) ==
    CASE c = "Temp"   -> [_id |-> None, _test |-> IntV(1)]
      [] c = "TestPerson" -> [_id |-> None, _name |-> StrV("John"), _age |-> IntV(28)]
      [] c = "Keyed"  -> [_id |-> None, _test |-> None]
      [] c = "Dup"    -> [_id |-> Oid(0), _alias |-> StrV("a")]
      [] c = "TestAddress" -> TestAddressInit.attrs
      [] c = "Event"  -> [_id |-> None, _address |-> DocV(TestAddressInit),
                          _date_created |-> DateTimeV(1, 5),
                          _venue |-> DocV(TestAddressInit)]
      [] c = "Labeled" -> [_id |-> None, _key |-> Oid(0)]

(* Raw values a caller assigns through a property setter. *)
SetterValues(c, f) ==
    CASE c = "Temp"   /\ f = "test" -> {IntV(1), IntV(10)}
      [] c = "TestPerson" /\ f = "id"   -> {None, Oid(0)}
      [] c = "TestPerson" /\ f = "name" -> {StrV("John"), StrV("Johnny")}
      [] c = "TestPerson" /\ f = "age"  -> {IntV(28), StrV("30")}
      [] c = "Keyed"  /\ f = "test" -> {None, StrV("x")}
      [] c = "Keyed"  /\ f = "key"  -> {None, Oid(0)}
      [] c = "Event"  /\ f = "address" -> {StrV("x")}
      [] c = "Event"  /\ f = "date_created" -> {DateTimeV(1, 5), DateV(1), StrV("x")}
      [] c = "Event"  /\ f = "venue" -> {DocV(TestAddressInit), StrV("x")}
      [] OTHER -> {}

(* sorted() order of attribute names, as inspect.getmembers lists them. *)
AttrOrder == <<"address", "age", "alias", "date_created", "id", "key", "name",
               "test", "venue">>
AttrRank(a) == CHOOSE i \in 1..Len(AttrOrder) : AttrOrder[i] = a

----------------------------------------------------------------------------
(* MongoCollectionBase instances *)

MongoCollectionBaseInit(c, skip) == [cls |-> c, skip_none |-> skip, attrs |-> CtorAttrs(c)]

NoDoc == [cls |-> "#NoDoc", skip_none |-> FALSE, attrs |-> [_id |-> None]]

----------------------------------------------------------------------------
(* FieldWrapper: the decorator factory and the property it builds *)

(* FieldWrapper.__init__ for the decorator of declaration d when the global
   counter stands at n. *)
FieldWrapperInit(d, n) ==
    [cls |-> d.cls, func_name |-> d.func_name,
     mongo_field_base_cls |-> d.mongo_field_base_cls,
     field_name |-> d.field_name, skip_none |-> d.skip_none,
     primary_key |-> d.primary_key, backing |-> d.backing, setter |-> d.setter,
     field_counter |-> n + 1]

MongoTypeOf(k) ==
    CASE k = "ObjectIdField" -> "OBJECT_ID"
      [] k = "StringField"   -> "STRING"
      [] k = "IntField"      -> "INT32"
      [] k = "BinaryField"   -> "BINARY_DATA"
      [] k = "BooleanField"  -> "BOOLEAN"
      [] k = "DecimalField"  -> "DECIMAL128"
      [] k = "DateTimeField" -> "DATE"
      [] k = "EmbeddedDocumentField" -> "OBJECT"
      [] k = "FloatField"    -> "DOUBLE"
      [] k = "RegExField"    -> "REGEX"
      [] k = "LongField"     -> "INT64"
      [] k = "ListField"     -> "ARRAY"
      [] k = "TimestampField" -> "TIMESTAMP"

(* The field as it would be if ObjectIdField.__init__ kept the name it was
   given for a primary key. *)
MongoFieldKeepName(k, value, f_name, skip, pk) ==
    [cls |-> k, value |-> value, field_name |-> f_name,
     skip_none |-> skip, mongo_type |-> MongoTypeOf(k),
     primary_key |-> (k = "ObjectIdField" /\ pk), field_counter |-> 0]

(* MongoFieldBase.__init__ / ObjectIdField.__init__ *)
MongoField(k, value, f_name, skip, pk) ==
    [cls |-> k, value |-> value,
     field_name |-> IF k = "ObjectIdField" /\ pk THEN "_id" ELSE f_name,
     skip_none |-> skip, mongo_type |-> MongoTypeOf(k),
     primary_key |-> (k = "ObjectIdField" /\ pk), field_counter |-> 0]

(* The counter a field keeps when the wrapper does not stamp it: the 0 that
   MongoFieldBase.__init__ sets. *)
UnstampedCounter(w) == 0 * w.field_counter

(* The field_counter the wrapper stamps on the field it returns. *)
StampedCounter(w) == w.field_counter

(* The property as it would be if the wrapper resolved the getter's name
   through Common.convert_field_name when the property is read. *)
ReadPropertyConverted(w, doc) ==
    LET f_name == IF w.field_name = NoName
                  THEN StrOfChars(convert_field_name(Defaults, CharsOf(w.func_name)))
                  ELSE w.field_name
        mongo_field == MongoField(w.mongo_field_base_cls, doc.attrs[w.backing],
                                  f_name, w.skip_none, w.primary_key)
    IN  [mongo_field EXCEPT !.field_counter = StampedCounter(w)]

(* FieldWrapper.__call__.wrapper: reading the property of wrapper w on doc *)
ReadProperty(w, doc) ==
    LET f_name == IF w.field_name = NoName THEN w.func_name ELSE w.field_name
        mongo_field == MongoField(w.mongo_field_base_cls, doc.attrs[w.backing],
                                  f_name, w.skip_none, w.primary_key)
    IN  [mongo_field EXCEPT !.field_counter = StampedCounter(w)]

(* The property setter: self.<backing> = value *)
WriteProperty(w, doc, value) == [doc EXCEPT !.attrs[w.backing] = value]

(* document.<name> = value: the outcome and the document afterwards.  A
   setter that assigns the property itself calls itself until the
   interpreter's recursion limit and leaves the document as it was. *)
SetterCall(w, doc, value) ==
    IF SetterRecurses(w.cls, w.func_name)
    THEN [out |-> Raise("RecursionError"), doc |-> doc]
    ELSE [out |-> Return(None), doc |-> WriteProperty(w, doc, value)]

----------------------------------------------------------------------------
(* to_mongo of the field variants *)

ParseRange == 0..99

(* int(s) for a str s *)
IntOfStr(s) ==
    IF \E n \in ParseRange : ToString(n) = s
    THEN Return(IntV(CHOOSE n \in ParseRange : ToString(n) = s))
    ELSE Raise("ValueError")

(* ObjectId(x); gen is the identifier a call without argument generates. *)
ObjectIdOf(x, gen) ==
    CASE x[1] = "oid"  -> Return(x)
      [] x[1] = "none" -> Return(gen)
      [] x[1] = "str"  -> Raise("InvalidId")
      [] OTHER         -> Raise("TypeError")

StringField_to_mongo(f) ==
    IF f.value[1] = "str" THEN Return(f.value)
    ELSE IF IsNone(f.value) THEN Return(None)
    ELSE IF f.value[1] = "int" THEN Return(StrV(ToString(f.value[2])))
    ELSE Return(StrV(ToString(f.value)))

(* int(x) for x that is not None: the number, or the exception *)
IntOf(x) ==
    CASE x[1] \in {"int", "int64", "float"} -> Return(IntV(x[2]))
      [] x[1] = "bool" -> Return(IntV(IF x[2] THEN 1 ELSE 0))
      [] x[1] = "str"  -> IntOfStr(x[2])
      [] OTHER -> Raise("TypeError")

(* isinstance(x, int): bool and Int64 are subclasses of int *)
IsInstanceInt(x) == x[1] \in {"int", "bool", "int64"}

IntField_to_mongo(f) ==
    IF IsInstanceInt(f.value) THEN Return(f.value)
    ELSE IF IsNone(f.value) THEN Return(None)
    ELSE IntOf(f.value)

(* bool(x): the truth value of x *)
Truthy(x) ==
    CASE x[1] \in {"int", "int64", "float", "decimal128"} -> x[2] # 0
      [] x[1] = "bool"  -> x[2]
      [] x[1] = "str"   -> x[2] # ""
      [] x[1] = "list"  -> x[2] # <<>>
      [] x[1] = "bytes" -> x[2] # 0
      [] x[1] = "none"  -> FALSE
      [] OTHER -> TRUE

(* Binary(data, subtype): data must be bytes *)
BinaryField_to_mongo(f) ==
    IF f.value[1] = "binary" THEN Return(f.value)
    ELSE IF f.value[1] = "bytes" THEN Return(BinaryV(f.value[2], 0))
    ELSE Raise("TypeError")

BooleanField_to_mongo(f) ==
    IF f.value[1] = "bool" THEN Return(f.value)
    ELSE IF IsNone(f.value) THEN Return(None)
    ELSE Return(BoolV(Truthy(f.value)))

(* Decimal128(value): a str is parsed, a list or tuple must be a pair of
   integers, anything else is refused. *)
DecimalField_to_mongo(f) ==
    IF f.value[1] = "decimal128" THEN Return(f.value)
    ELSE IF f.value[1] = "str"
         THEN LET n == IntOfStr(f.value[2])
              IN  IF n.raised THEN Raise("InvalidOperation")
                  ELSE Return(Decimal128V(n.val[2]))
    ELSE IF f.value[1] = "list"
         THEN IF Len(f.value[2]) = 2 THEN Return(Decimal128V(0)) ELSE Raise("ValueError")
    ELSE Raise("TypeError")

DateTimeField_to_mongo(f) ==
    IF f.value[1] = "datetime" THEN Return(f.value)
    ELSE IF f.value[1] = "date" THEN Return(DateTimeV(f.value[2], 0))
    ELSE Raise("TypeError")

EmbeddedDocumentField_to_mongo(f) ==
    IF f.value[1] # "doc" THEN Raise("TypeError") ELSE Return(f.value)

FloatField_to_mongo(f) ==
    IF f.value[1] = "float" THEN Return(f.value)
    ELSE IF IsNone(f.value) THEN Return(None)
    ELSE IF f.value[1] \in {"int", "int64", "bool", "str"}
         THEN LET n == IntOf(f.value)
              IN  IF n.raised THEN n ELSE Return(FloatV(n.val[2]))
    ELSE Raise("TypeError")

(* RegExField.__init__: self._flags = 0, whatever flags was passed *)
RegExField_flags(flags) == 0

(* RegExField(value, field_name, skip_none, flags) *)
RegExFieldInit(value, field_name, skip_none, flags) ==
    LET m == MongoField("RegExField", value, field_name, skip_none, FALSE)
    IN  [a \in DOMAIN m \cup {"flags"} |->
            IF a = "flags" THEN RegExField_flags(flags) ELSE m[a]]

(* self._flags; a field of a property declared by regex_field() without
   flags was constructed with the default flags=0. *)
FlagsOf(f) == IF "flags" \in DOMAIN f THEN f.flags ELSE RegExField_flags(0)

(* Regex(pattern, flags): pattern must be str or bytes. *)
RegExField_to_mongo(f) ==
    IF f.value[1] = "regex" THEN Return(f.value)
    ELSE IF f.value[1] \in {"str", "bytes"} THEN Return(RegexV(f.value[2], FlagsOf(f)))
    ELSE Raise("TypeError")

LongField_to_mongo(f) ==
    IF f.value[1] = "int64" THEN Return(f.value)
    ELSE IF IsNone(f.value) THEN Return(None)
    ELSE LET n == IntOf(f.value)
         IN  IF n.raised THEN n ELSE Return(Int64V(n.val[2]))

(* list(x): the elements of an iterable x *)
ListField_to_mongo(f) ==
    IF f.value[1] = "list" THEN Return(f.value)
    ELSE IF IsNone(f.value) THEN Return(None)
    ELSE IF f.value[1] = "str"
         THEN Return(ListV(IF f.value[2] = "" THEN <<>> ELSE <<f.value>>))
    ELSE IF f.value[1] = "bytes" THEN Return(ListV(<<IntV(f.value[2])>>))
    ELSE Raise("TypeError")

TimestampField_to_mongo_strict(f) ==
    IF f.value[1] = "timestamp" THEN Return(f.value)
    ELSE IF f.value[1] = "datetime"
         THEN Return(TimestampV(100 * f.value[2][1] + f.value[2][2], 0))
    ELSE Raise("TypeError")

TimestampField_to_mongo(f) ==
    IF f.value[1] = "timestamp" THEN Return(f.value)
    ELSE IF f.value[1] = "datetime"
         THEN Return(TimestampV(100 * f.value[2][1] + f.value[2][2], 0))
    ELSE Return(TimestampV(0, 0))

ObjectIdField_to_mongo(f, gen) ==
    IF f.value[1] = "oid" THEN Return(f.value) ELSE ObjectIdOf(f.value, gen)

to_mongo(f, gen) ==
    CASE f.cls = "StringField"   -> StringField_to_mongo(f)
      [] f.cls = "IntField"      -> IntField_to_mongo(f)
      [] f.cls = "ObjectIdField" -> ObjectIdField_to_mongo(f, gen)
      [] f.cls = "BinaryField"   -> BinaryField_to_mongo(f)
      [] f.cls = "BooleanField"  -> BooleanField_to_mongo(f)
      [] f.cls = "DecimalField"  -> DecimalField_to_mongo(f)
      [] f.cls = "DateTimeField" -> DateTimeField_to_mongo(f)
      [] f.cls = "EmbeddedDocumentField" -> EmbeddedDocumentField_to_mongo(f)
      [] f.cls = "FloatField"    -> FloatField_to_mongo(f)
      [] f.cls = "RegExField"    -> RegExField_to_mongo(f)
      [] f.cls = "LongField"     -> LongField_to_mongo(f)
      [] f.cls = "ListField"     -> ListField_to_mongo(f)
      [] f.cls = "TimestampField" -> TimestampField_to_mongo(f)

----------------------------------------------------------------------------
(* Ordered mappings (SON, dict): sequences of <<key, value>> *)

SonKeys(son) == [i \in 1..Len(son) |-> son[i][1]]
SonHas(son, k) == \E i \in 1..Len(son) : son[i][1] = k
SonGet(son, k) == son[CHOOSE i \in 1..Len(son) : son[i][1] = k][2]
SonSetAppend(son, k, v) == Append(son, <<k, v>>)

SonSet(son, k, v) ==
    IF SonHas(son, k)
    THEN [i \in 1..Len(son) |-> IF son[i][1] = k THEN <<k, v>> ELSE son[i]]
    ELSE Append(son, <<k, v>>)

----------------------------------------------------------------------------
(* MongoCollectionBase *)

(* list.sort(key=...): a stable insertion sort of <<name, field>> pairs on
   field_counter. *)
RECURSIVE InsertByCounter(_, _)
InsertByCounter(sorted, m) ==
    IF sorted = <<>> THEN <<m>>
    ELSE IF m[2].field_counter < Head(sorted)[2].field_counter
         THEN <<m>> \o sorted
         ELSE <<Head(sorted)>> \o InsertByCounter(Tail(sorted), m)

RECURSIVE SortByCounter(_)
SortByCounter(ms) ==
    IF ms = <<>> THEN <<>>
    ELSE InsertByCounter(SortByCounter(SubSeq(ms, 1, Len(ms) - 1)), ms[Len(ms)])

(* inspect.getmembers(obj, isinstance MongoFieldBase): the properties of the
   object's class, read once each, in sorted order of attribute name. *)
GetMembers(ws, doc) ==
    LET mine == SelectSeq(ws, LAMBDA w : w.cls = doc.cls)
        byName == [r \in 1..Len(mine) |->
                     mine[CHOOSE i \in 1..Len(mine) :
                            Cardinality({j \in 1..Len(mine) :
                               AttrRank(mine[j].func_name) < AttrRank(mine[i].func_name)}) = r - 1]]
    IN  [r \in 1..Len(byName) |-> <<byName[r].func_name, ReadProperty(byName[r], doc)>>]

get_mongo_fields(ws, doc) == SortByCounter(GetMembers(ws, doc))

(* A SON held as a value of an enclosing SON *)
SonV(son) == <<"son", son>>

RECURSIVE to_son(_, _, _)

(* mongo_field.value.to_son() of the embedded branch: the value's own to_son
   when it is a document; any other value has no attribute to_son. *)
EmbeddedToSon(ws, value, gen) ==
    IF value[1] # "doc" THEN Raise("AttributeError")
    ELSE LET inner == to_son(ws, value[2], gen)
         IN  IF inner.raised THEN inner ELSE Return(SonV(inner.val))

(* The loop body as it would be if both skip_none flags were required. *)
ToSonStepBothFlags(ws, doc, acc, mongo_field, gen) ==
    IF acc.raised THEN acc
    ELSE IF (doc.skip_none /\ mongo_field.skip_none) /\ IsNone(mongo_field.value)
         THEN acc
    ELSE IF mongo_field.cls = "ObjectIdField" /\ mongo_field.primary_key
         THEN ReturnObj(SonSet(acc.val, "_id", mongo_field.value))
    ELSE IF mongo_field.cls = "EmbeddedDocumentField"
         THEN LET e == EmbeddedToSon(ws, mongo_field.value, gen)
              IN  IF e.raised THEN e
                  ELSE ReturnObj(SonSet(acc.val, mongo_field.field_name, e.val))
    ELSE LET m == to_mongo(mongo_field, gen)
         IN  IF m.raised THEN m
             ELSE ReturnObj(SonSet(acc.val, mongo_field.field_name, m.val))

(* The loop body of to_son for one field; acc is the outcome so far. *)
ToSonStep(ws, doc, acc, mongo_field, gen) ==
    IF acc.raised THEN acc
    ELSE IF (doc.skip_none \/ mongo_field.skip_none) /\ IsNone(mongo_field.value)
         THEN acc
    ELSE IF mongo_field.cls = "ObjectIdField" /\ mongo_field.primary_key
         THEN ReturnObj(SonSet(acc.val, "_id", mongo_field.value))
    ELSE IF mongo_field.cls = "EmbeddedDocumentField"
         THEN LET e == EmbeddedToSon(ws, mongo_field.value, gen)
              IN  IF e.raised THEN e
                  ELSE ReturnObj(SonSet(acc.val, mongo_field.field_name, e.val))
    ELSE LET m == to_mongo(mongo_field, gen)
         IN  IF m.raised THEN m
             ELSE ReturnObj(SonSet(acc.val, mongo_field.field_name, m.val))

RECURSIVE ToSonLoop(_, _, _, _, _)
ToSonLoop(ws, doc, fields, acc, gen) ==
    IF fields = <<>> THEN acc
    ELSE ToSonLoop(ws, doc, Tail(fields),
                   ToSonStep(ws, doc, acc, Head(fields)[2], gen), gen)

to_son(ws, doc, gen) ==
    ToSonLoop(ws, doc, get_mongo_fields(ws, doc), ReturnObj(<<>>), gen)

(* from_dict, first loop: the local dict field_name -> field object built
   from one read of every property of the fresh instance. *)
RECURSIVE FieldsByName(_, _)
FieldsByName(fields, acc) ==
    IF fields = <<>> THEN acc
    ELSE FieldsByName(Tail(fields), SonSet(acc, Head(fields)[2].field_name, Head(fields)[2]))

(* The second loop as it would be with mongo_fields.get(key) and a skip of
   the keys it does not find. *)
RECURSIVE FromDictLoopLenient(_, _)
FromDictLoopLenient(items, mongo_fields) ==
    IF items = <<>> THEN ReturnObj(mongo_fields)
    ELSE IF ~SonHas(mongo_fields, Head(items)[1])
         THEN FromDictLoopLenient(Tail(items), mongo_fields)
    ELSE FromDictLoopLenient(Tail(items),
            SonSet(mongo_fields, Head(items)[1],
                   [SonGet(mongo_fields, Head(items)[1]) EXCEPT !.value = Head(items)[2]]))

(* from_dict, second loop: mongo_fields[key]._value = value, on the field
   objects held by the local dict. *)
RECURSIVE FromDictLoop(_, _)
FromDictLoop(items, mongo_fields) ==
    IF items = <<>> THEN ReturnObj(mongo_fields)
    ELSE IF ~SonHas(mongo_fields, Head(items)[1]) THEN Raise("KeyError")
    ELSE FromDictLoop(Tail(items),
            SonSet(mongo_fields, Head(items)[1],
                   [SonGet(mongo_fields, Head(items)[1]) EXCEPT !.value = Head(items)[2]]))

from_dict_locals(ws, c, document_dict) ==
    LET collection == MongoCollectionBaseInit(c, FALSE)
    IN  FromDictLoop(document_dict, FieldsByName(get_mongo_fields(ws, collection), <<>>))

(* from_dict returns the instance it constructed first.  Every property read
   builds a new field object (ReadProperty), so the objects the second loop
   wrote to are reachable from the local dict only, and the instance's own
   attributes are the constructor's. *)
from_dict(ws, c, document_dict) ==
    LET collection == MongoCollectionBaseInit(c, FALSE)
        written == from_dict_locals(ws, c, document_dict)
    IN  IF written.raised THEN written ELSE ReturnObj(collection)

RECURSIVE DocEq(_, _, _)

(* self.value == other.value: when one side is a document the comparison is
   MongoCollectionBase.__eq__ (reflected when the document is on the right),
   which reads the attributes named after the document's fields from the
   other value; other values compare by value. *)
ValueEq(ws, v, w) ==
    IF v[1] = "doc" /\ w[1] = "doc" THEN DocEq(ws, v[2], w[2])
    ELSE IF v[1] = "doc" \/ w[1] = "doc"
         THEN LET d == IF v[1] = "doc" THEN v[2] ELSE w[2]
              IN  IF \E i \in 1..Len(ws) : ws[i].cls = d.cls
                  THEN Raise("AttributeError") ELSE ReturnObj(TRUE)
    ELSE ReturnObj(v[1] = w[1] /\ v = w)

(* __eq__ as it would be if it compared wire name and type tag only. *)
MongoFieldEqNoValue(ws, f, g) ==
    ReturnObj(f.field_name = g.field_name /\ f.mongo_type = g.mongo_type)

(* MongoFieldBase.__eq__ *)
MongoFieldEq(ws, f, g) ==
    LET values == ValueEq(ws, f.value, g.value)
    IN  IF values.raised THEN values
        ELSE ReturnObj(values.val /\ f.field_name = g.field_name
                                  /\ f.mongo_type = g.mongo_type)

HasProperty(ws, c, name) ==
    \E i \in 1..Len(ws) : ws[i].cls = c /\ ws[i].func_name = name
PropertyOf(ws, c, name) ==
    ws[CHOOSE i \in 1..Len(ws) : ws[i].cls = c /\ ws[i].func_name = name]

(* MongoCollectionBase.__eq__(a, b) *)
RECURSIVE EqLoop(_, _, _)
EqLoop(ws, fields, b) ==
    IF fields = <<>> THEN ReturnObj(TRUE)
    ELSE IF ~HasProperty(ws, b.cls, Head(fields)[1]) THEN Raise("AttributeError")
    ELSE LET same == MongoFieldEq(ws, Head(fields)[2],
                        ReadProperty(PropertyOf(ws, b.cls, Head(fields)[1]), b))
         IN  IF same.raised THEN same
             ELSE IF ~same.val THEN ReturnObj(FALSE)
             ELSE EqLoop(ws, Tail(fields), b)

DocEq(ws, a, b) == EqLoop(ws, get_mongo_fields(ws, a), b)

----------------------------------------------------------------------------
(* get_collection_name: class attributes are a mapping from attribute name
   to value.  Inside the body of class MongoCollectionBase the identifier
   cls.__collection_name is the attribute _MongoCollectionBase__collection_name
   (private-name mangling); the string handed to hasattr is taken as written. *)

MangledCollectionName == "_MongoCollectionBase__collection_name"

ClassAttrsInit(c) == [a \in {"__name__"} |-> ClassName(c)]

HasAttr(attrs, name) == name \in DOMAIN attrs

(* The value get_collection_name returns and the class attributes it leaves. *)
get_collection_name(D, attrs) ==
    IF ~HasAttr(attrs, "__collection_name") \/ attrs[MangledCollectionName] = None
    THEN LET Named(name) ==
                 [out |-> IF name = IndexError THEN Raise("IndexError") ELSE ReturnObj(name),
                  attrs |-> IF name = IndexError THEN attrs
                            ELSE [a \in DOMAIN attrs \cup {MangledCollectionName} |->
                                    IF a = MangledCollectionName THEN name ELSE attrs[a]]]
         IN  Named(convert_collection_name(D, attrs["__name__"]))
    ELSE [out |-> ReturnObj(attrs[MangledCollectionName]), attrs |-> attrs]

----------------------------------------------------------------------------
(* The driver's collection (pymongo / mongomock), as far as the repository
   uses it: records are kept in insertion order, a record without "_id" gets
   a generated one, two records never share an "_id". *)

NoFilter == <<"#None", None>>

(* A filter is None or a one-key mapping {key: value}. *)
Matches(filter, record) ==
    \/ filter = NoFilter
    \/ SonHas(record, filter[1]) /\ SonGet(record, filter[1]) = filter[2]

Driver_find_one(records, filter) ==
    IF \E i \in 1..Len(records) : Matches(filter, records[i])
    THEN ReturnObj(records[CHOOSE i \in 1..Len(records) :
                    /\ Matches(filter, records[i])
                    /\ \A j \in 1..(i-1) : ~Matches(filter, records[j])])
    ELSE Return(None)

Driver_insert_one(records, son, gen) ==
    LET stored == IF SonHas(son, "_id") THEN son ELSE SonSet(son, "_id", gen)
    IN  IF \E i \in 1..Len(records) : SonGet(records[i], "_id") = SonGet(stored, "_id")
        THEN [out |-> Raise("DuplicateKeyError"), records |-> records]
        ELSE [out |-> ReturnObj([inserted_id |-> SonGet(stored, "_id")]),
              records |-> Append(records, stored)]

(* The records before position i, and those after it *)
Before(records, i) == SubSeq(records, 1, i - 1)
After(records, i) == SubSeq(records, i + 1, Len(records))

(* The position of the first record the filter matches; 0 when there is none *)
FirstMatch(records, filter) ==
    IF \E i \in 1..Len(records) : Matches(filter, records[i])
    THEN CHOOSE i \in 1..Len(records) :
            /\ Matches(filter, records[i])
            /\ \A j \in 1..(i-1) : ~Matches(filter, records[j])
    ELSE 0

HasId(records, id) == \E i \in 1..Len(records) : SonGet(records[i], "_id") = id

(* collection.replace_one(filter, replacement, upsert): the matched record
   keeps its _id, which the replacement may not alter; an upsert inserts the
   replacement under its own _id, else the filter's, else a generated one. *)
Driver_replace_one(records, filter, replacement, upsert, gen) ==
    LET i == FirstMatch(records, filter)
        old == records[i]
        new == SonSet(replacement, "_id", SonGet(old, "_id"))
        id == IF SonHas(replacement, "_id") THEN SonGet(replacement, "_id")
              ELSE IF filter[1] = "_id" THEN filter[2] ELSE gen
    IN  IF i # 0
        THEN IF SonHas(replacement, "_id") /\ SonGet(replacement, "_id") # SonGet(old, "_id")
             THEN [out |-> Raise("WriteError"), records |-> records]
             ELSE [out |-> ReturnObj([matched_count |-> 1,
                                      modified_count |-> IF new = old THEN 0 ELSE 1,
                                      upserted_id |-> None]),
                   records |-> Before(records, i) \o <<new>> \o After(records, i)]
        ELSE IF ~upsert
        THEN [out |-> ReturnObj([matched_count |-> 0, modified_count |-> 0,
                                 upserted_id |-> None]),
              records |-> records]
        ELSE IF HasId(records, id)
        THEN [out |-> Raise("DuplicateKeyError"), records |-> records]
        ELSE [out |-> ReturnObj([matched_count |-> 0, modified_count |-> 0,
                                 upserted_id |-> id]),
              records |-> Append(records, SonSet(replacement, "_id", id))]

(* An update document is a one-key mapping {operator: fields}. *)
RECURSIVE SonUpdate(_, _)
SonUpdate(son, fields) ==
    IF fields = <<>> THEN son
    ELSE SonUpdate(SonSet(son, Head(fields)[1], Head(fields)[2]), Tail(fields))

(* collection.update_one(filter, update, upsert): the server knows the
   operator "$set" and refuses an update document with any other key. *)
Driver_update_one(records, filter, update, upsert, gen) ==
    LET i == FirstMatch(records, filter)
        new == SonUpdate(records[i], update[2])
        seed == IF filter = NoFilter THEN <<>> ELSE <<filter>>
        made == SonUpdate(seed, update[2])
        id == IF SonHas(made, "_id") THEN SonGet(made, "_id") ELSE gen
    IN  IF update[1] # "$set"
        THEN [out |-> Raise("WriteError"), records |-> records]
        ELSE IF i # 0
        THEN IF SonGet(new, "_id") # SonGet(records[i], "_id")
             THEN [out |-> Raise("WriteError"), records |-> records]
             ELSE [out |-> ReturnObj([matched_count |-> 1,
                                      modified_count |-> IF new = records[i] THEN 0 ELSE 1,
                                      upserted_id |-> None]),
                   records |-> Before(records, i) \o <<new>> \o After(records, i)]
        ELSE IF ~upsert
        THEN [out |-> ReturnObj([matched_count |-> 0, modified_count |-> 0,
                                 upserted_id |-> None]),
              records |-> records]
        ELSE IF HasId(records, id)
        THEN [out |-> Raise("DuplicateKeyError"), records |-> records]
        ELSE [out |-> ReturnObj([matched_count |-> 0, modified_count |-> 0,
                                 upserted_id |-> id]),
              records |-> Append(records, SonSet(made, "_id", id))]

(* collection.delete_one(filter) *)
Driver_delete_one(records, filter) ==
    LET i == FirstMatch(records, filter)
    IN  IF i = 0 THEN [out |-> ReturnObj([deleted_count |-> 0]), records |-> records]
        ELSE [out |-> ReturnObj([deleted_count |-> 1]),
              records |-> Before(records, i) \o After(records, i)]

(* collection.delete_many(filter) *)
Driver_delete_many(records, filter) ==
    LET kept == SelectSeq(records, LAMBDA r : ~Matches(filter, r))
    IN  [out |-> ReturnObj([deleted_count |-> Len(records) - Len(kept)]),
         records |-> kept]

(* collection.find(filter): the records a cursor over the collection yields *)
Driver_find(records, filter) == SelectSeq(records, LAMBDA r : Matches(filter, r))

(* collection.insert_many(documents, ordered): the documents are inserted
   in order; the first duplicate _id ends an ordered batch with an error. *)
RECURSIVE Driver_insert_many(_, _, _, _)
Driver_insert_many(records, sons, ids, gen) ==
    IF sons = <<>> THEN [out |-> ReturnObj([inserted_ids |-> ids]), records |-> records]
    ELSE LET one == Driver_insert_one(records, Head(sons), gen)
         IN  IF one.out.raised THEN [out |-> Raise("BulkWriteError"), records |-> records]
             ELSE Driver_insert_many(one.records, Tail(sons),
                                     Append(ids, one.out.val.inserted_id), gen)

(* One call of an operation of the driver's collection *)
DriverCall(op, collection, filter) == [op |-> op, collection |-> collection, filter |-> filter]

Records(database, name) == IF name \in DOMAIN database THEN database[name] ELSE <<>>

PutRecords(database, name, records) ==
    [n \in DOMAIN database \cup {name} |-> IF n = name THEN records ELSE database[n]]

----------------------------------------------------------------------------
(* MongoRepository *)

NoArg == "#NoArg"
NoRepo == [concrete_type |-> "#NoRepo"]

(* get_orig_class(self, True) inside __init__: the alias MongoRepository[T]
   found on the stack when a type argument was given, else the class itself,
   which has no __args__. *)
get_orig_class(typeArg) ==
    IF typeArg = NoArg THEN [has_args |-> FALSE, args |-> <<>>]
    ELSE [has_args |-> TRUE, args |-> <<typeArg>>]

(* issubclass(concrete_type, MongoCollectionBase) *)
IsCollectionClass(t) == t \in Classes

(* The wrapper as it would be without the issubclass test. *)
checktype_class_any(typeArg) ==
    LET orig_type == get_orig_class(typeArg)
    IN  IF ~orig_type.has_args THEN Raise("TypeError")
        ELSE ReturnObj([concrete_type |-> orig_type.args[1]])

(* _checktype_class.wrapper around MongoRepository.__init__ *)
checktype_class(typeArg) ==
    LET orig_type == get_orig_class(typeArg)
    IN  IF ~orig_type.has_args THEN Raise("TypeError")
        ELSE IF ~IsCollectionClass(orig_type.args[1]) THEN Raise("TypeError")
        ELSE ReturnObj([concrete_type |-> orig_type.args[1]])

(* The wrapper as it would be without the isinstance test. *)
checktype_func_unchecked(rp, doc) == Return(None)

(* _checktype_func.wrapper: isinstance(document, concrete_type) *)
checktype_func(rp, doc) ==
    IF doc.cls = rp.concrete_type THEN Return(None) ELSE Raise("TypeError")


(* MongoRepository._get_collection: the name of the bound type's collection
   and the class attributes get_collection_name leaves behind. *)
get_collection(D, cattrs, rp) == get_collection_name(D, cattrs[rp.concrete_type])

(* find_one as it would be without the test of the driver's result for None:
   from_dict(None) fails on None.items(). *)
find_one_unchecked(ws, D, cattrs, database, rp, filter) ==
    LET Found(result) ==
            IF result.isnone THEN [out |-> Raise("AttributeError"), rec |-> result]
            ELSE [out |-> from_dict(ws, rp.concrete_type, result.val), rec |-> result]
        In(coll) ==
            IF coll.out.raised THEN [out |-> coll.out, rec |-> Return(None)]
            ELSE Found(Driver_find_one(Records(database, coll.out.val), filter))
    IN  In(get_collection(D, cattrs, rp))

(* MongoRepository.find_one: rec is what the driver handed back. *)
find_one(ws, D, cattrs, database, rp, filter) ==
    LET Found(result) ==
            IF result.isnone THEN [out |-> Return(None), rec |-> result]
            ELSE [out |-> from_dict(ws, rp.concrete_type, result.val), rec |-> result]
        In(coll) ==
            IF coll.out.raised THEN [out |-> coll.out, rec |-> Return(None)]
            ELSE Found(Driver_find_one(Records(database, coll.out.val), filter))
    IN  In(get_collection(D, cattrs, rp))

(* MongoRepository.insert_one behind its _checktype_func wrapper: the
   outcome, the records of the collection and the document afterwards.
   gen is the identifier the next ObjectId() generates. *)
insert_one(ws, D, cattrs, database, rp, document, gen) ==
    LET Failed(out, records) ==
            [out |-> out, records |-> records, stored |-> FALSE, document |-> document]
        Stored(result, oid) ==
            IF oid.raised
            THEN [out |-> oid, records |-> result.records, stored |-> TRUE, document |-> document]
            ELSE [out |-> result.out, records |-> result.records, stored |-> TRUE,
                  document |-> [document EXCEPT !.attrs["_id"] = oid.val]]
        Inserted(records, result) ==
            IF result.out.raised THEN Failed(result.out, records)
            ELSE Stored(result, ObjectIdOf(result.out.val.inserted_id, gen))
        Into(records, son) ==
            IF son.raised THEN Failed(son, records)
            ELSE Inserted(records, Driver_insert_one(records, son.val, gen))
        In(checked, coll) ==
            IF checked.raised THEN Failed(checked, <<>>)
            ELSE IF coll.out.raised THEN Failed(coll.out, <<>>)
            ELSE Into(Records(database, coll.out.val), to_son(ws, document, gen))
    IN  In(checktype_func(rp, document), get_collection(D, cattrs, rp))

(* filter_d of replace_one and update_one: {'_id': filter.id.value} for a
   document.  filter.id is the field property named id when the class
   declares one; otherwise it is MongoCollectionBase.id, which returns the
   raw _id, and that has no attribute value. *)
ReduceFilter(ws, filter) ==
    IF filter[1] # "doc" THEN ReturnObj(filter)
    ELSE IF HasProperty(ws, filter[2].cls, "id")
         THEN ReturnObj(<<"_id", ReadProperty(PropertyOf(ws, filter[2].cls, "id"),
                                              filter[2]).value>>)
         ELSE Raise("AttributeError")

(* The outcome of a repository call that never reached the driver *)
Unreached(out) ==
    [out |-> out, records |-> <<>>, reached |-> FALSE, calls |-> <<>>,
     collection |-> <<>>, attrs |-> <<>>]

(* The outcome of a repository call that called op of the collection named
   by coll with filter: the driver's result and the records it leaves. *)
Reached(result, coll, op, filter) ==
    [out |-> result.out, records |-> result.records, reached |-> TRUE,
     calls |-> <<DriverCall(op, coll.out.val, filter)>>,
     collection |-> coll.out.val, attrs |-> coll.attrs]

(* MongoRepository.replace_one behind its _checktype_func wrapper *)
replace_one(ws, D, cattrs, database, rp, filter, document, upsert, gen) ==
    LET With(filter_d, coll, son) ==
            IF filter_d.raised THEN Unreached(filter_d)
            ELSE IF coll.out.raised THEN Unreached(coll.out)
            ELSE IF son.raised THEN Unreached(son)
            ELSE Reached(Driver_replace_one(Records(database, coll.out.val), filter_d.val,
                                            son.val, upsert, gen),
                         coll, "replace_one", filter_d.val)
        Checked(checked) ==
            IF checked.raised THEN Unreached(checked)
            ELSE With(ReduceFilter(ws, filter), get_collection(D, cattrs, rp),
                      to_son(ws, document, gen))
    IN  Checked(checktype_func(rp, document))

(* update_d of update_one: {'$set:': update.to_son()} for a document *)
UpdateDocument(ws, update, gen) ==
    IF update[1] # "doc" THEN ReturnObj(update)
    ELSE LET Set(son) == IF son.raised THEN son ELSE ReturnObj(<<"$set:", son.val>>)
         IN  Set(to_son(ws, update[2], gen))

(* MongoRepository.update_one *)
update_one(ws, D, cattrs, database, rp, filter, update, upsert, gen) ==
    LET With(filter_d, update_d, coll) ==
            IF filter_d.raised THEN Unreached(filter_d)
            ELSE IF update_d.raised THEN Unreached(update_d)
            ELSE IF coll.out.raised THEN Unreached(coll.out)
            ELSE Reached(Driver_update_one(Records(database, coll.out.val), filter_d.val,
                                           update_d.val, upsert, gen),
                         coll, "update_one", filter_d.val)
    IN  With(ReduceFilter(ws, filter), UpdateDocument(ws, update, gen),
             get_collection(D, cattrs, rp))

RECURSIVE SonsOf(_, _, _)
SonsOf(ws, documents, gen) ==
    IF documents = <<>> THEN ReturnObj(<<>>)
    ELSE LET Cons(son, rest) ==
                 IF son.raised THEN son
                 ELSE IF rest.raised THEN rest
                 ELSE ReturnObj(<<son.val>> \o rest.val)
         IN  Cons(to_son(ws, Head(documents), gen), SonsOf(ws, Tail(documents), gen))

(* MongoRepository.insert_many: no parameter is hinted with the type
   variable, so no _checktype_func wrapper is put around it. *)
insert_many(ws, D, cattrs, database, rp, documents, gen) ==
    LET With(son_documents, coll) ==
            IF son_documents.raised THEN Unreached(son_documents)
            ELSE IF coll.out.raised THEN Unreached(coll.out)
            ELSE Reached(Driver_insert_many(Records(database, coll.out.val),
                                            son_documents.val, <<>>, gen),
                         coll, "insert_many", NoFilter)
    IN  With(SonsOf(ws, documents, gen), get_collection(D, cattrs, rp))

(* The filter of delete_one and delete_many: a document is reduced to a
   filter on the reserved identifier field with the document's identifier. *)
IdentityFilter(filter) ==
    IF filter[1] # "doc" THEN filter ELSE <<"_id", filter[2].attrs["_id"]>>

(* MongoRepository.delete_one *)
delete_one(D, cattrs, database, rp, filter) ==
    LET In(coll) ==
            IF coll.out.raised THEN Unreached(coll.out)
            ELSE Reached(Driver_delete_one(Records(database, coll.out.val),
                                           IdentityFilter(filter)),
                         coll, "delete_one", IdentityFilter(filter))
    IN  In(get_collection(D, cattrs, rp))

(* MongoRepository.delete_many *)
delete_many(D, cattrs, database, rp, filter) ==
    LET In(coll) ==
            IF coll.out.raised THEN Unreached(coll.out)
            ELSE Reached(Driver_delete_many(Records(database, coll.out.val),
                                            IdentityFilter(filter)),
                         coll, "delete_many", IdentityFilter(filter))
    IN  In(get_collection(D, cattrs, rp))

(* Iterating the Query Result Cursor: from_dict of every record the
   driver's cursor yields, up to the first that raises. *)
RECURSIVE CursorItems(_, _, _)
CursorItems(ws, c, found) ==
    IF found = <<>> THEN ReturnObj(<<>>)
    ELSE LET Cons(item, rest) ==
                 IF item.raised THEN item
                 ELSE IF rest.raised THEN rest
                 ELSE ReturnObj(<<item.val>> \o rest.val)
         IN  Cons(from_dict(ws, c, Head(found)), CursorItems(ws, c, Tail(found)))

(* MongoRepository.find and the iteration of the cursor it returns *)
find(ws, D, cattrs, database, rp, filter) ==
    LET In(coll) ==
            IF coll.out.raised THEN Unreached(coll.out)
            ELSE Reached([out |-> CursorItems(ws, rp.concrete_type,
                                    Driver_find(Records(database, coll.out.val), filter)),
                          records |-> Records(database, coll.out.val)],
                         coll, "find", filter)
    IN  In(get_collection(D, cattrs, rp))

----------------------------------------------------------------------------
(* State *)

MaxDocs == 1
MaxRecords == 1
MaxOid == 2

Slots == 1..MaxDocs

(* The last call: calls lists the operations of the driver's collection the
   call performed. *)
Call(op, c, slot, arg, rec, out) ==
    [op |-> op, cls |-> c, slot |-> slot, arg |-> arg, rec |-> rec, out |-> out,
     calls |-> <<>>]

WithCalls(call, calls) == [call EXCEPT !.calls = calls]

ClassDefined(c) == \A i \in 1..Len(Source) : Source[i].cls = c => i <= Len(wrappers)

TypeArgs == {NoArg, "str"} \cup Classes

FilterInputs ==
    {NoFilter, <<"_id", Oid(0)>>, <<"_id", Oid(1)>>, <<"age", IntV(28)>>, <<"test", IntV(10)>>}

TotalRecords ==
    Cardinality(UNION {{<<n, i>> : i \in 1..Len(db[n])} : n \in DOMAIN db})

Init ==
    /\ Defaults = DefaultsInit
    /\ class_attrs = [c \in Classes |-> ClassAttrsInit(c)]
    /\ global_field_counter = 0
    /\ wrappers = <<>>
    /\ docs = [s \in Slots |-> NoDoc]
    /\ repo = NoRepo
    /\ db = [n \in {} |-> <<>>]
    /\ oid_counter = 0
    /\ ret = Call("import", "", 0, None, Return(None), Return(None))

----------------------------------------------------------------------------
(* Operations *)

(* Module execution reaches the next decorator: FieldWrapper.__init__ *)
Decorate ==
    /\ Len(wrappers) < Len(Source)
    /\ wrappers' = Append(wrappers,
                          FieldWrapperInit(Source[Len(wrappers) + 1], global_field_counter))
    /\ global_field_counter' = global_field_counter + 1
    /\ ret' = Call("FieldWrapper", Source[Len(wrappers) + 1].cls, 0, None,
                   Return(None), Return(None))
    /\ UNCHANGED <<Defaults, class_attrs, docs, repo, db, oid_counter>>

(* cls() / cls(skip_none=...) *)
NewDocument(s, c, skip) ==
    /\ ClassDefined(c)
    /\ skip \in (IF CtorTakesSkipNone(c) THEN BOOLEAN ELSE {FALSE})
    /\ docs' = [docs EXCEPT ![s] = MongoCollectionBaseInit(c, skip)]
    /\ ret' = Call("__init__", c, s, None, Return(None), Return(None))
    /\ UNCHANGED <<Defaults, class_attrs, global_field_counter, wrappers, repo, db,
                   oid_counter>>

(* document.<f> = v *)
SetProperty(s, f, v) ==
    /\ docs[s] # NoDoc
    /\ HasProperty(wrappers, docs[s].cls, f)
    /\ PropertyOf(wrappers, docs[s].cls, f).setter
    /\ v \in SetterValues(docs[s].cls, f)
    /\ LET r == SetterCall(PropertyOf(wrappers, docs[s].cls, f), docs[s], v)
       IN  /\ docs' = [docs EXCEPT ![s] = r.doc]
           /\ ret' = Call("setter", docs[s].cls, s, v, Return(StrV(f)), r.out)
    /\ UNCHANGED <<Defaults, class_attrs, global_field_counter, wrappers, repo, db,
                   oid_counter>>

NextOid == Oid(oid_counter + 1)

(* document.to_son() *)
ToSon(s) ==
    /\ docs[s] # NoDoc
    /\ ret' = Call("to_son", docs[s].cls, s, None, Return(None),
                   to_son(wrappers, docs[s], NextOid))
    /\ UNCHANGED <<Defaults, class_attrs, global_field_counter, wrappers, docs, repo, db,
                   oid_counter>>

(* c.from_dict(docs[s].to_son()) *)
FromDict(c, s) ==
    /\ ClassDefined(c)
    /\ docs[s] # NoDoc
    /\ \E son \in {to_son(wrappers, docs[s], NextOid)} :
          /\ ~son.raised
          /\ ret' = Call("from_dict", c, s, son.val, Return(None),
                         from_dict(wrappers, c, son.val))
    /\ UNCHANGED <<Defaults, class_attrs, global_field_counter, wrappers, docs, repo, db,
                   oid_counter>>

(* MongoRepository(client, name) / MongoRepository[typeArg](client, name);
   the program keeps one repository. *)
Construct(typeArg) ==
    /\ repo = NoRepo
    /\ typeArg \in Classes => ClassDefined(typeArg)
    /\ LET made == checktype_class(typeArg)
       IN  /\ repo' = IF made.raised THEN repo ELSE made.val
           /\ ret' = Call("MongoRepository", typeArg, 0, None, Return(None), made)
    /\ UNCHANGED <<Defaults, class_attrs, global_field_counter, wrappers, docs, db,
                   oid_counter>>

(* cls.get_collection_name() *)
GetCollectionName(c) ==
    /\ ClassDefined(c)
    /\ \E r \in {get_collection_name(Defaults, class_attrs[c])} :
           /\ class_attrs' = [class_attrs EXCEPT ![c] = r.attrs]
           /\ ret' = Call("get_collection_name", c, 0, None, Return(None), r.out)
    /\ UNCHANGED <<Defaults, global_field_counter, wrappers, docs, repo, db, oid_counter>>

(* repository.insert_one(docs[s]) *)
InsertOne(s) ==
    /\ repo # NoRepo
    /\ docs[s] # NoDoc
    /\ TotalRecords < MaxRecords
    /\ oid_counter < MaxOid
    /\ \E coll \in {get_collection(Defaults, class_attrs, repo)},
          r \in {insert_one(wrappers, Defaults, class_attrs, db, repo, docs[s], NextOid)},
          checked \in {checktype_func(repo, docs[s])},
          son \in {to_son(wrappers, docs[s], NextOid)} :
       LET generated == /\ ~checked.raised /\ ~coll.out.raised /\ ~son.raised
                        /\ \/ ~SonHas(son.val, "_id")
                           \/ r.stored /\ SonGet(son.val, "_id") = None
       IN  /\ ret' = WithCalls(Call("insert_one", docs[s].cls, s, None, Return(None), r.out),
                             IF checked.raised \/ coll.out.raised \/ son.raised THEN <<>>
                             ELSE <<DriverCall("insert_one", coll.out.val, NoFilter)>>)
           /\ docs' = [docs EXCEPT ![s] = r.document]
           /\ db' = IF r.stored THEN PutRecords(db, coll.out.val, r.records) ELSE db
           /\ class_attrs' = IF checked.raised THEN class_attrs
                             ELSE [class_attrs EXCEPT ![repo.concrete_type] = coll.attrs]
           /\ oid_counter' = IF generated THEN oid_counter + 1 ELSE oid_counter
    /\ UNCHANGED <<Defaults, global_field_counter, wrappers, repo>>

(* repository.find_one(filter) *)
FindOne(filter) ==
    /\ repo # NoRepo
    /\ \E coll \in {get_collection(Defaults, class_attrs, repo)},
          r \in {find_one(wrappers, Defaults, class_attrs, db, repo, filter)} :
           /\ ret' = WithCalls(Call("find_one", repo.concrete_type, 0, filter, r.rec, r.out),
                             IF coll.out.raised THEN <<>>
                             ELSE <<DriverCall("find_one", coll.out.val, filter)>>)
           /\ class_attrs' = [class_attrs EXCEPT ![repo.concrete_type] = coll.attrs]
    /\ UNCHANGED <<Defaults, global_field_counter, wrappers, docs, repo, db, oid_counter>>

(* Filters and update documents a caller passes as mappings *)
MappingFilters == {<<"_id", Oid(0)>>, <<"age", IntV(28)>>}
MappingUpdates == {<<"$set", <<<<"age", IntV(30)>>>>>>}

(* The argument that stands for "the document itself" *)
DocumentArg == <<"#document", None>>
ArgOf(a, doc) == IF a = DocumentArg THEN DocV(doc) ELSE a

(* What a repository call leaves in class_attrs and db *)
AfterCall(r) ==
    /\ class_attrs' = IF r.reached
                      THEN [class_attrs EXCEPT ![repo.concrete_type] = r.attrs]
                      ELSE class_attrs
    /\ db' = IF r.reached /\ r.records # Records(db, r.collection)
             THEN PutRecords(db, r.collection, r.records) ELSE db

(* Whether the call stored a record under the identifier NextOid *)
Generated(r) == r.reached /\ HasId(r.records, NextOid)

(* repository.insert_many([docs[s]]) *)
InsertMany(s) ==
    /\ repo # NoRepo
    /\ docs[s] # NoDoc
    /\ TotalRecords < MaxRecords
    /\ oid_counter < MaxOid
    /\ \E r \in {insert_many(wrappers, Defaults, class_attrs, db, repo, <<docs[s]>>, NextOid)} :
           /\ ret' = WithCalls(Call("insert_many", repo.concrete_type, s, None,
                                    Return(None), r.out), r.calls)
           /\ AfterCall(r)
           /\ oid_counter' = IF Generated(r) THEN oid_counter + 1 ELSE oid_counter
    /\ UNCHANGED <<Defaults, global_field_counter, wrappers, docs, repo>>

(* repository.replace_one(filter, docs[s], upsert) *)
ReplaceOne(s, filter, upsert) ==
    /\ repo # NoRepo
    /\ docs[s] # NoDoc
    /\ filter \in MappingFilters \cup {DocumentArg}
    /\ upsert => TotalRecords < MaxRecords
    /\ oid_counter < MaxOid
    /\ \E r \in {replace_one(wrappers, Defaults, class_attrs, db, repo,
                            ArgOf(filter, docs[s]), docs[s], upsert, NextOid)} :
           /\ ret' = WithCalls(Call("replace_one", repo.concrete_type, s,
                                    ArgOf(filter, docs[s]), Return(None), r.out), r.calls)
           /\ AfterCall(r)
           /\ oid_counter' = IF Generated(r) THEN oid_counter + 1 ELSE oid_counter
    /\ UNCHANGED <<Defaults, global_field_counter, wrappers, docs, repo>>

(* repository.update_one(filter, update, upsert) *)
UpdateOne(s, filter, update, upsert) ==
    /\ repo # NoRepo
    /\ docs[s] # NoDoc
    /\ filter \in MappingFilters \cup {DocumentArg}
    /\ update \in MappingUpdates \cup {DocumentArg}
    /\ upsert => TotalRecords < MaxRecords
    /\ oid_counter < MaxOid
    /\ \E r \in {update_one(wrappers, Defaults, class_attrs, db, repo,
                           ArgOf(filter, docs[s]), ArgOf(update, docs[s]), upsert, NextOid)} :
           /\ ret' = WithCalls(Call("update_one", repo.concrete_type, s,
                                    ArgOf(filter, docs[s]), Return(None), r.out), r.calls)
           /\ AfterCall(r)
           /\ oid_counter' = IF Generated(r) THEN oid_counter + 1 ELSE oid_counter
    /\ UNCHANGED <<Defaults, global_field_counter, wrappers, docs, repo>>

(* repository.delete_one(filter) *)
DeleteOne(s, filter) ==
    /\ repo # NoRepo
    /\ docs[s] # NoDoc
    /\ filter \in MappingFilters \cup {DocumentArg}
    /\ \E r \in {delete_one(Defaults, class_attrs, db, repo, ArgOf(filter, docs[s]))} :
           /\ ret' = WithCalls(Call("delete_one", repo.concrete_type, s,
                                    ArgOf(filter, docs[s]), Return(None), r.out), r.calls)
           /\ AfterCall(r)
    /\ UNCHANGED <<Defaults, global_field_counter, wrappers, docs, repo, oid_counter>>

(* repository.delete_many(filter) *)
DeleteMany(s, filter) ==
    /\ repo # NoRepo
    /\ docs[s] # NoDoc
    /\ filter \in MappingFilters \cup {DocumentArg}
    /\ \E r \in {delete_many(Defaults, class_attrs, db, repo, ArgOf(filter, docs[s]))} :
           /\ ret' = WithCalls(Call("delete_many", repo.concrete_type, s,
                                    ArgOf(filter, docs[s]), Return(None), r.out), r.calls)
           /\ AfterCall(r)
    /\ UNCHANGED <<Defaults, global_field_counter, wrappers, docs, repo, oid_counter>>

(* for item in repository.find(filter) *)
Find(filter) ==
    /\ repo # NoRepo
    /\ filter \in MappingFilters \cup {NoFilter}
    /\ \E r \in {find(wrappers, Defaults, class_attrs, db, repo, filter)} :
           /\ ret' = WithCalls(Call("find", repo.concrete_type, 0, filter,
                                    Return(None), r.out), r.calls)
           /\ AfterCall(r)
    /\ UNCHANGED <<Defaults, global_field_counter, wrappers, docs, repo, oid_counter>>

(* The documents a caller compares with: a fresh instance of a class, or
   one with a single property written. *)
OtherDocuments ==
    {MongoCollectionBaseInit(c, FALSE) : c \in Classes}
    \cup UNION {{WriteProperty(FieldWrapperInit(Source[i], i - 1),
                               MongoCollectionBaseInit(Source[i].cls, FALSE), v) :
                    v \in SetterValues(Source[i].cls, Source[i].func_name)} :
                 i \in {j \in 1..Len(Source) :
                          Source[j].setter
                          /\ ~SetterRecurses(Source[j].cls, Source[j].func_name)}}

(* docs[s] == other, and other == docs[s] (kept in rec) *)
Equals(s, other) ==
    /\ docs[s] # NoDoc
    /\ ret' = Call("__eq__", docs[s].cls, s, DocV(other),
                   DocEq(wrappers, other, docs[s]),
                   DocEq(wrappers, docs[s], other))
    /\ UNCHANGED <<Defaults, class_attrs, global_field_counter, wrappers, docs, repo, db,
                   oid_counter>>

(* Defaults.collection_naming_convention = c *)
SetCollectionNamingConvention(c) ==
    /\ Defaults' = [Defaults EXCEPT !.collection_naming_convention = c]
    /\ ret' = Call("Defaults", "", 0, None, Return(None), Return(None))
    /\ UNCHANGED <<class_attrs, global_field_counter, wrappers, docs, repo, db, oid_counter>>

(* Defaults.name_separator = sep *)
SetNameSeparator(sep) ==
    /\ Defaults' = [Defaults EXCEPT !.name_separator = sep]
    /\ ret' = Call("Defaults", "", 0, None, Return(None), Return(None))
    /\ UNCHANGED <<class_attrs, global_field_counter, wrappers, docs, repo, db, oid_counter>>

Separators == {"_", "-"}

(* Defaults.field_naming_convention = c *)
SetFieldNamingConvention(c) ==
    /\ Defaults' = [Defaults EXCEPT !.field_naming_convention = c]
    /\ ret' = Call("Defaults", "", 0, None, Return(None), Return(None))
    /\ UNCHANGED <<class_attrs, global_field_counter, wrappers, docs, repo, db, oid_counter>>

----------------------------------------------------------------------------
(* Specifications *)

(* Spec: the module is executed decorator by decorator while documents of
   the classes already defined are built, written, serialized and read back. *)
Next ==
    \/ Decorate
    \/ \E s \in Slots, c \in Classes, skip \in BOOLEAN : NewDocument(s, c, skip)
    \/ \E s \in Slots, f \in {Source[i].func_name : i \in 1..Len(Source)},
          v \in UNION {SetterValues(Source[i].cls, Source[i].func_name) : i \in 1..Len(Source)} :
            SetProperty(s, f, v)
    \/ \E s \in Slots : ToSon(s)
    \/ \E c \in Classes, s \in Slots : FromDict(c, s)

Spec == Init /\ [][Next]_vars

(* The state once the whole module has been executed. *)
RECURSIVE Imported(_)
Imported(n) ==
    IF n = 0 THEN <<>> ELSE Append(Imported(n - 1), FieldWrapperInit(Source[n], n - 1))

InitImported ==
    /\ Defaults = DefaultsInit
    /\ class_attrs = [c \in Classes |-> ClassAttrsInit(c)]
    /\ global_field_counter = Len(Source)
    /\ wrappers = Imported(Len(Source))
    /\ docs = [s \in Slots |-> NoDoc]
    /\ repo = NoRepo
    /\ db = [n \in {} |-> <<>>]
    /\ oid_counter = 0
    /\ ret = Call("import", "", 0, None, Return(None), Return(None))

(* SpecRepo: one repository and one document variable, docs[1]. *)
NextRepo ==
    \/ \E c \in Classes, skip \in BOOLEAN : NewDocument(1, c, skip)
    \/ \E f \in {Source[i].func_name : i \in 1..Len(Source)},
          v \in UNION {SetterValues(Source[i].cls, Source[i].func_name) : i \in 1..Len(Source)} :
            SetProperty(1, f, v)
    \/ \E t \in TypeArgs : Construct(t)
    \/ InsertOne(1)
    \/ \E f \in FilterInputs : FindOne(f)

SpecRepo == InitImported /\ [][NextRepo]_vars

(* SpecNaming: the naming configuration changes between calls of
   get_collection_name. *)
NextNaming ==
    \/ \E c \in NamingConventions : SetCollectionNamingConvention(c)
    \/ \E sep \in Separators : SetNameSeparator(sep)
    \/ \E c \in Classes : GetCollectionName(c)

SpecNaming == InitImported /\ [][NextNaming]_vars

(* SpecEq: one document variable, docs[1], is built and written and then
   compared with another document. *)
NextEq ==
    \/ \E c \in Classes, skip \in BOOLEAN : NewDocument(1, c, skip)
    \/ \E f \in {Source[i].func_name : i \in 1..Len(Source)},
          v \in UNION {SetterValues(Source[i].cls, Source[i].func_name) : i \in 1..Len(Source)} :
            SetProperty(1, f, v)
    \/ \E other \in OtherDocuments : Equals(1, other)

SpecEq == InitImported /\ [][NextEq]_vars

(* SpecCrud: one repository and one document variable, docs[1], of a class
   with a field property named id (TestPerson) or without one (Event); the
   document's identifier, its date and its embedded document are written,
   and every repository operation is called. *)
CrudClasses == {"TestPerson", "Event"}
CrudProperties == {"id", "venue", "date_created"}

NextCrud ==
    \/ \E c \in CrudClasses : NewDocument(1, c, FALSE)
    \/ \E f \in CrudProperties :
          \E v \in UNION {SetterValues(c, f) : c \in CrudClasses} : SetProperty(1, f, v)
    \/ \E t \in CrudClasses : Construct(t)
    \/ InsertOne(1)
    \/ InsertMany(1)
    \/ \E f \in MappingFilters \cup {DocumentArg}, upsert \in BOOLEAN :
          ReplaceOne(1, f, upsert)
    \/ \E f \in MappingFilters \cup {DocumentArg},
          u \in MappingUpdates \cup {DocumentArg} : UpdateOne(1, f, u, FALSE)
    \/ \E f \in MappingFilters \cup {DocumentArg} : DeleteOne(1, f)
    \/ \E f \in MappingFilters \cup {DocumentArg} : DeleteMany(1, f)
    \/ \E f \in MappingFilters \cup {NoFilter} : Find(f)
    \/ ToSon(1)

SpecCrud == InitImported /\ [][NextCrud]_vars

(* The converter applied to a name: the input text is ret.arg, the outcome
   ret.out. *)
MaxNameLen == 3

NameAlphabet == {"a", "B", "_", "-", " "}

Names == UNION {[1..n -> NameAlphabet] : n \in 0..MaxNameLen}

(* The outcome of a converter call: the text, or the IndexError of word[0]
   on an empty word. *)
NameOutcome(r) == IF r = IndexError THEN Raise("IndexError") ELSE ReturnObj(r)

ApplyConverter(op, D, text) ==
    CASE op = "snake_case"  -> snake_case(D, text)
      [] op = "camel_case"  -> camel_case(D, text)
      [] op = "pascal_case" -> pascal_case(D, text)
      [] op = "convert_field_name" -> convert_field_name(D, text)
      [] op = "convert_collection_name" -> convert_collection_name(D, text)

ConverterOps == {"snake_case", "camel_case", "pascal_case",
                 "convert_field_name", "convert_collection_name"}

(* The call record of Common.<op>(ret.arg) *)
ConverterCall(op) ==
    Call(op, "", 0, ret.arg, Return(None),
         NameOutcome(ApplyConverter(op, Defaults, ret.arg)))

(* Common.snake_case(text) *)
SnakeCase ==
    /\ ret.op \in {"input"} \cup ConverterOps
    /\ ret' = ConverterCall("snake_case")
    /\ UNCHANGED <<Defaults, class_attrs, global_field_counter, wrappers, docs, repo,
                   db, oid_counter>>

(* Common.camel_case(text) *)
CamelCase ==
    /\ ret.op \in {"input"} \cup ConverterOps
    /\ ret' = ConverterCall("camel_case")
    /\ UNCHANGED <<Defaults, class_attrs, global_field_counter, wrappers, docs, repo,
                   db, oid_counter>>

(* Common.pascal_case(text) *)
PascalCase ==
    /\ ret.op \in {"input"} \cup ConverterOps
    /\ ret' = ConverterCall("pascal_case")
    /\ UNCHANGED <<Defaults, class_attrs, global_field_counter, wrappers, docs, repo,
                   db, oid_counter>>

(* Common.convert_field_name(text) *)
ConvertFieldName ==
    /\ ret.op \in {"input"} \cup ConverterOps
    /\ ret' = ConverterCall("convert_field_name")
    /\ UNCHANGED <<Defaults, class_attrs, global_field_counter, wrappers, docs, repo,
                   db, oid_counter>>

(* Common.convert_collection_name(text) *)
ConvertCollectionName ==
    /\ ret.op \in {"input"} \cup ConverterOps
    /\ ret' = ConverterCall("convert_collection_name")
    /\ UNCHANGED <<Defaults, class_attrs, global_field_counter, wrappers, docs, repo,
                   db, oid_counter>>

(* SpecConvert: a configuration and an input name, and the converter
   functions applied to the name under that configuration. *)
InitConvert ==
    /\ \E f \in NamingConventions, c \in NamingConventions, sep \in Separators :
          Defaults = [DefaultsInit EXCEPT !.field_naming_convention = f,
                                          !.collection_naming_convention = c,
                                          !.name_separator = sep]
    /\ class_attrs = [c \in Classes |-> ClassAttrsInit(c)]
    /\ global_field_counter = Len(Source)
    /\ wrappers = Imported(Len(Source))
    /\ docs = [s \in Slots |-> NoDoc]
    /\ repo = NoRepo
    /\ db = [n \in {} |-> <<>>]
    /\ oid_counter = 0
    /\ \E text \in Names : ret = Call("input", "", 0, text, Return(None), Return(None))

NextConvert ==
    \/ SnakeCase
    \/ CamelCase
    \/ PascalCase
    \/ ConvertFieldName
    \/ ConvertCollectionName

SpecConvert == InitConvert /\ [][NextConvert]_vars

(* SpecFields: the field naming convention changes while one document
   variable, docs[1], is built, written and serialized. *)
NextFields ==
    \/ \E c \in NamingConventions : SetFieldNamingConvention(c)
    \/ \E c \in Classes, skip \in BOOLEAN : NewDocument(1, c, skip)
    \/ \E f \in {Source[i].func_name : i \in 1..Len(Source)},
          v \in UNION {SetterValues(Source[i].cls, Source[i].func_name) : i \in 1..Len(Source)} :
            SetProperty(1, f, v)
    \/ ToSon(1)

SpecFields == InitImported /\ [][NextFields]_vars

----------------------------------------------------------------------------
(* Properties *)

(* What the declarations say, read off Source and the wrappers directly. *)
DeclaredWireName(w) ==
    IF w.mongo_field_base_cls = "ObjectIdField" /\ w.primary_key THEN "_id"
    ELSE IF w.field_name = NoName THEN w.func_name ELSE w.field_name

WrappersOf(c) == {i \in 1..Len(wrappers) : wrappers[i].cls = c}

DeclaredWireNames(c) == {DeclaredWireName(wrappers[i]) : i \in WrappersOf(c)}

(* The value the property with wire name key holds in doc. *)
WireValue(doc, key) ==
    SonGet(FieldsByName(get_mongo_fields(wrappers, doc), <<>>), key).value

Skipped(doc, w) == IsNone(doc.attrs[w.backing]) /\ (doc.skip_none \/ w.skip_none)

(* C1: from_dict(d.to_son()) of d's own class, when to_son skipped no field
   of d, returns a document in which every field named in the mapping holds
   the mapping's value. *)
C1_RoundTrip ==
    (/\ ret.op = "from_dict"
     /\ ret.cls = docs[ret.slot].cls
     /\ \A i \in WrappersOf(ret.cls) : ~Skipped(docs[ret.slot], wrappers[i]))
    => /\ ~ret.out.raised
       /\ \A i \in 1..Len(ret.arg) : WireValue(ret.out.val, ret.arg[i][1]) = ret.arg[i][2]

(* The collection of the repository's bound type. *)
RecordsIn(database, cattrs, rp) ==
    Records(database, get_collection(Defaults, cattrs, rp).out.val)
RepoRecords == RecordsIn(db, class_attrs, repo)

(* C2: a find_one that follows insert_one(d) and whose filter matches the
   record stored for d returns a document equal to d. *)
C2_FindAfterInsert ==
    [][(/\ ret.op = "insert_one" /\ ~ret.out.raised
        /\ ret'.op = "find_one" /\ ~ret'.rec.isnone
        /\ ret'.rec.val = RepoRecords[Len(RepoRecords)])
       => /\ ~ret'.out.raised
          /\ DocEq(wrappers, ret'.out.val, docs[ret.slot]) = ReturnObj(TRUE)
          /\ DocEq(wrappers, docs[ret.slot], ret'.out.val) = ReturnObj(TRUE)]_vars

(* C3: after insert_one(d) has returned, d's identity field holds the
   inserted_id of the driver's result, and the collection holds a record under
   that identifier. *)
C3_InsertedId ==
    (ret.op = "insert_one" /\ ~ret.out.raised)
    => /\ docs[ret.slot].attrs["_id"] = ret.out.val.inserted_id
       /\ \E i \in 1..Len(RepoRecords) :
             SonGet(RepoRecords[i], "_id") = ret.out.val.inserted_id

(* C4: find_one with a filter that matches no record of the collection
   returns None and raises nothing. *)
C4_FindOneNone ==
    (/\ ret.op = "find_one"
     /\ \A i \in 1..Len(RepoRecords) : ~Matches(ret.arg, RepoRecords[i]))
    => ~ret.out.raised /\ ret.out.isnone

C4_Witness ==
    /\ ret.op = "find_one"
    /\ Len(RepoRecords) > 0
    /\ \A i \in 1..Len(RepoRecords) : ~Matches(ret.arg, RepoRecords[i])
    /\ ~ret.out.raised /\ ret.out.isnone

(* C5: constructing a repository raises TypeError without a type argument
   and with one that is no subclass of MongoCollectionBase; with a subclass
   it succeeds and _concrete_type is the type argument. *)
C5_Construct ==
    ret.op = "MongoRepository"
    => IF ret.cls \in Classes
       THEN ~ret.out.raised /\ repo # NoRepo /\ repo.concrete_type = ret.cls
       ELSE ret.out.raised /\ ret.out.exc = "TypeError" /\ repo = NoRepo

C5_Witness ==
    /\ ret.op = "MongoRepository" /\ ret.cls = "str"
    /\ ret.out.raised /\ ret.out.exc = "TypeError" /\ repo = NoRepo

(* C6: from_dict raises KeyError exactly when the mapping has a key that is
   not the wire name of a declared field of the class, and returns a document
   otherwise. *)
C6_FromDictStrict ==
    ret.op = "from_dict"
    => IF \E i \in 1..Len(ret.arg) : ret.arg[i][1] \notin DeclaredWireNames(ret.cls)
       THEN ret.out.raised /\ ret.out.exc = "KeyError"
       ELSE ~ret.out.raised /\ ret.out.val.cls = ret.cls

C6_Witness ==
    /\ ret.op = "from_dict"
    /\ \E i \in 1..Len(ret.arg) : ret.arg[i][1] \notin DeclaredWireNames(ret.cls)
    /\ \E i \in 1..Len(ret.arg) : ret.arg[i][1] \in DeclaredWireNames(ret.cls)
    /\ ret.out.raised /\ ret.out.exc = "KeyError"

(* The place in the module text of the first decorator of class c whose
   field has wire name key. *)
DeclIndex(c, key) ==
    CHOOSE i \in 1..Len(Source) :
        /\ Source[i].cls = c /\ DeclaredWireName(Source[i]) = key
        /\ \A j \in 1..(i-1) : ~(Source[j].cls = c /\ DeclaredWireName(Source[j]) = key)

(* C7: the keys of to_son() come in the order in which the field decorators
   stand in the module text. *)
C7_DeclarationOrder ==
    (ret.op = "to_son" /\ ~ret.out.raised)
    => \A i, j \in 1..Len(ret.out.val) :
          i < j => DeclIndex(ret.cls, ret.out.val[i][1]) < DeclIndex(ret.cls, ret.out.val[j][1])

C7_Witness ==
    /\ ret.op = "to_son" /\ ~ret.out.raised
    /\ ret.cls = "TestPerson"
    /\ SonKeys(ret.out.val) = <<"_id", "name", "age">>
    /\ AttrRank("age") < AttrRank("id") /\ AttrRank("id") < AttrRank("name")

(* C8: a declared field is absent from to_son() exactly when its value is
   None and skip_none is set on the field or on the document. *)
C8_SkipNone ==
    (ret.op = "to_son" /\ ~ret.out.raised)
    => \A i \in WrappersOf(ret.cls) :
          SonHas(ret.out.val, DeclaredWireName(wrappers[i]))
            <=> ~Skipped(docs[ret.slot], wrappers[i])

C8_Witness ==
    /\ ret.op = "to_son" /\ ~ret.out.raised
    /\ docs[ret.slot].cls = "Keyed" /\ docs[ret.slot].skip_none
    /\ IsNone(docs[ret.slot].attrs["_test"]) /\ ~IsNone(docs[ret.slot].attrs["_id"])
    /\ SonKeys(ret.out.val) = <<"_id">>

PrimaryKeys(c) == {i \in WrappersOf(c) : wrappers[i].primary_key}

(* C9 as stated: a primary-key field has wire name "_id" and to_son() always
   holds its raw value under "_id". *)
C9_AlwaysEmitted ==
    (ret.op = "to_son" /\ ~ret.out.raised)
    => \A i \in PrimaryKeys(ret.cls) :
          /\ ReadProperty(wrappers[i], docs[ret.slot]).field_name = "_id"
          /\ SonHas(ret.out.val, "_id")
          /\ SonGet(ret.out.val, "_id") = docs[ret.slot].attrs[wrappers[i].backing]

(* A field of the class declared after wrapper i that has wire name "_id" too. *)
Overwritten(c, i) ==
    \E j \in WrappersOf(c) : j > i /\ DeclaredWireName(wrappers[j]) = "_id"

(* C9: a primary-key field has wire name "_id" whatever its getter is called
   and whatever field_name it was given; unless it is skipped as None, or a
   field declared later has wire name "_id" as well, to_son() holds its raw
   value under "_id"; and to_son() never holds a key of the getter's or the
   override's name for it. *)
C9_PrimaryKey ==
    (ret.op = "to_son" /\ ~ret.out.raised)
    => \A i \in PrimaryKeys(ret.cls) :
          /\ ReadProperty(wrappers[i], docs[ret.slot]).field_name = "_id"
          /\ (~Skipped(docs[ret.slot], wrappers[i]) /\ ~Overwritten(ret.cls, i))
                => /\ SonHas(ret.out.val, "_id")
                   /\ SonGet(ret.out.val, "_id") = docs[ret.slot].attrs[wrappers[i].backing]
          /\ \A k \in {wrappers[i].func_name, wrappers[i].field_name} :
                SonHas(ret.out.val, k) => k \in DeclaredWireNames(ret.cls)

C9_Witness ==
    /\ ret.op = "to_son" /\ ~ret.out.raised
    /\ ret.cls = "Keyed"
    /\ docs[ret.slot].attrs["_id"] = Oid(0)
    /\ SonHas(ret.out.val, "_id") /\ SonGet(ret.out.val, "_id") = Oid(0)
    /\ ~SonHas(ret.out.val, "pk") /\ ~SonHas(ret.out.val, "key")

(* C10: once get_collection_name() has been called on a type, every later
   call on the type returns what the call before it returned, whatever the
   naming configuration has become. *)
C10_NameCached ==
    [][(/\ ret'.op = "get_collection_name"
        /\ HasAttr(class_attrs[ret'.cls], MangledCollectionName))
       => /\ ~ret'.out.raised
          /\ ret'.out.val = class_attrs[ret'.cls][MangledCollectionName]]_vars

(* The declarations without a name override that are not the primary key. *)
PlainWrappersOf(c) ==
    {i \in WrappersOf(c) :
        /\ wrappers[i].field_name = NoName
        /\ ~(wrappers[i].mongo_field_base_cls = "ObjectIdField" /\ wrappers[i].primary_key)}

(* C11 as stated: the key to_son() gives a field declared without a name
   override (and not the primary key) is convert_field_name of the getter's
   name under the field naming convention in force. *)
C11_ConvertedKey ==
    (ret.op = "to_son" /\ ~ret.out.raised)
    => \A i \in PlainWrappersOf(ret.cls) :
          ~Skipped(docs[ret.slot], wrappers[i])
          => \E k \in 1..Len(ret.out.val) :
                CharsOf(ret.out.val[k][1]) =
                    convert_field_name(Defaults, CharsOf(wrappers[i].func_name))

(* C11: the key to_son() gives a field declared without a name override
   (and not the primary key) is the getter's name as written, whatever the
   field naming convention in force; convert_field_name takes no part. *)
C11_GetterNameKey ==
    (ret.op = "to_son" /\ ~ret.out.raised)
    => \A i \in PlainWrappersOf(ret.cls) :
          ~Skipped(docs[ret.slot], wrappers[i])
          => SonHas(ret.out.val, wrappers[i].func_name)

C11_Witness ==
    /\ ret.op = "to_son" /\ ~ret.out.raised /\ ret.cls = "Event"
    /\ Defaults.field_naming_convention = "PASCAL_CASE"
    /\ SonHas(ret.out.val, "date_created")
    /\ convert_field_name(Defaults, CharsOf("date_created")) = CharsOf("DateCreated")

(* The convention a converter call of ret goes by. *)
ConventionOf(op) ==
    CASE op = "convert_field_name" -> Defaults.field_naming_convention
      [] op = "convert_collection_name" -> Defaults.collection_naming_convention

HasSeparator(text) ==
    \E i \in 1..Len(text), j \in 1..Len(Defaults.strip_separators) :
        text[i] = Defaults.strip_separators[j]

(* C12 as stated: under every convention, converting the result of a
   conversion again gives the same result. *)
C12_Idempotent ==
    (ret.op \in {"convert_field_name", "convert_collection_name"} /\ ~ret.out.raised)
    => ApplyConverter(ret.op, Defaults, ret.out.val) = ret.out.val

(* C12: under the snake and unchanged conventions converting the result of
   a conversion again gives the same result for every name; under the camel
   and Pascal conventions it does for every name that holds no strip
   separator and converts without raising. *)
C12_IdempotentOneWord ==
    (/\ ret.op \in {"convert_field_name", "convert_collection_name"}
     /\ ~ret.out.raised
     /\ \/ ConventionOf(ret.op) \in {"SNAKE_CASE", "UNCHANGED"}
        \/ ~HasSeparator(ret.arg))
    => ApplyConverter(ret.op, Defaults, ret.out.val) = ret.out.val

C12_Witness ==
    /\ ret.op = "convert_field_name"
    /\ Defaults.field_naming_convention = "SNAKE_CASE"
    /\ ret.arg = <<"a", "B", "a">>
    /\ ret.out.val = <<"a", Defaults.name_separator, "b", "a">>
    /\ convert_field_name(Defaults, ret.out.val) = ret.out.val

(* C13: the three case functions, and the two convert functions under every
   convention, return the empty string for the empty string and raise
   nothing. *)
C13_EmptyName ==
    (ret.op \in ConverterOps /\ ret.arg = <<>>)
    => ~ret.out.raised /\ ret.out.val = <<>>

(* The filter the claim has the driver receive for the filter argument arg *)
ClaimedFilter(arg) ==
    IF arg[1] = "doc" THEN <<"_id", arg[2].attrs["_id"]>> ELSE arg

(* Whether the document argument of the call fails before the driver is
   reached: the type check of replace_one, or its serialization. *)
DocumentArgumentFails ==
    /\ ret.op \in {"replace_one", "update_one"}
    /\ \/ ret.op = "replace_one" /\ checktype_func(repo, docs[ret.slot]).raised
       \/ to_son(wrappers, docs[ret.slot], NextOid).raised

(* C14: in replace_one, update_one, delete_one and delete_many the driver
   receives {"_id": the document's identifier} for a filter that is a
   document and the filter itself for any other filter; the reduction of the
   filter never fails. *)
C14_FilterReduced ==
    ret.op \in {"replace_one", "update_one", "delete_one", "delete_many"}
    => IF ret.calls # <<>>
       THEN ret.calls[1].filter = ClaimedFilter(ret.arg)
       ELSE DocumentArgumentFails

RepoOps == {"find_one", "insert_one", "insert_many", "replace_one", "update_one",
            "delete_one", "delete_many", "find"}

(* C15: every repository call that returns has performed exactly one call
   of the driver, the operation of the same name on the collection of the
   repository's bound type; delete_one(d) right after insert_one(d) removes
   exactly one record; find(None) yields one document per stored record. *)
C15_Facade ==
    [][/\ (ret'.op \in RepoOps /\ ~ret'.out.raised)
          => /\ Len(ret'.calls) = 1
             /\ ret'.calls[1].op = ret'.op
             /\ ret'.calls[1].collection =
                    get_collection(Defaults, class_attrs, repo).out.val
       /\ (/\ ret.op = "insert_one" /\ ~ret.out.raised
           /\ ret'.op = "delete_one" /\ ret'.arg = DocV(docs[ret.slot]))
          => /\ ~ret'.out.raised
             /\ ret'.out.val.deleted_count = 1
             /\ Len(RecordsIn(db', class_attrs', repo')) = Len(RepoRecords) - 1
       /\ (ret'.op = "find" /\ ret'.arg = NoFilter)
          => /\ ~ret'.out.raised
             /\ Len(ret'.out.val) = Len(RecordsIn(db', class_attrs', repo'))]_vars

(* Every field a's class declares has a same-named field in b's class with
   the same value, wire name and type tag. *)
FieldwiseEqual(a, b) ==
    \A i \in WrappersOf(a.cls) :
        /\ HasProperty(wrappers, b.cls, wrappers[i].func_name)
        /\ LET w == PropertyOf(wrappers, b.cls, wrappers[i].func_name)
           IN  /\ a.attrs[wrappers[i].backing] = b.attrs[w.backing]
               /\ DeclaredWireName(wrappers[i]) = DeclaredWireName(w)
               /\ MongoTypeOf(wrappers[i].mongo_field_base_cls) =
                      MongoTypeOf(w.mongo_field_base_cls)

(* C16: a == b is True exactly when every field of a equals the same-named
   field of b in value, wire name and type tag; in particular a document
   compared with a fresh instance of its class is equal to it exactly when
   each of its fields holds the constructor's value. *)
C16_Equality ==
    ret.op = "__eq__"
    => LET a == docs[ret.slot]
           b == ret.arg[2]
       IN  /\ (ret.out = ReturnObj(TRUE)) <=> FieldwiseEqual(a, b)
           /\ (a.cls = b.cls /\ b = MongoCollectionBaseInit(b.cls, FALSE))
              => ((ret.out = ReturnObj(TRUE)) <=>
                    \A i \in WrappersOf(a.cls) :
                       a.attrs[wrappers[i].backing] = CtorAttrs(a.cls)[wrappers[i].backing])

C16_Witness ==
    /\ ret.op = "__eq__"
    /\ docs[ret.slot].cls = "TestPerson"
    /\ ret.arg[2] = MongoCollectionBaseInit("TestPerson", FALSE)
    /\ docs[ret.slot].attrs["_age"] = StrV("30")
    /\ docs[ret.slot].attrs["_name"] = StrV("John")
    /\ ret.out = ReturnObj(FALSE)

(* C17: after document.<f> = v through a property with a setter, reading
   the property gives a field with value v and the wire name, type tag and
   declaration order it had before, and every other property of the
   document reads as before. *)
C17_SetterFrame ==
    [][ret'.op = "setter"
       => LET s == ret'.slot
              w == PropertyOf(wrappers, docs[s].cls, ret'.rec.val[2])
              before == ReadProperty(w, docs[s])
              after == ReadProperty(w, docs'[s])
          IN  /\ ~ret'.out.raised
              /\ after.value = ret'.arg
              /\ after.field_name = before.field_name
              /\ after.mongo_type = before.mongo_type
              /\ after.field_counter = before.field_counter
              /\ \A i \in WrappersOf(docs[s].cls) :
                    wrappers[i] # w
                    => ReadProperty(wrappers[i], docs'[s]) = ReadProperty(wrappers[i], docs[s])
      ]_vars

(* A document that holds a non-document in an embedded-document field or
   something that is neither date nor datetime in a date-time field. *)
HoldsWrongType(doc) ==
    \E i \in WrappersOf(doc.cls) :
        \/ /\ wrappers[i].mongo_field_base_cls = "EmbeddedDocumentField"
           /\ doc.attrs[wrappers[i].backing][1] # "doc"
        \/ /\ wrappers[i].mongo_field_base_cls = "DateTimeField"
           /\ doc.attrs[wrappers[i].backing][1] \notin {"date", "datetime"}

(* C18: to_son() of such a document, and insert_one and replace_one with
   it, raise TypeError to the caller, and the driver is not called. *)
C18_TypeError ==
    (/\ ret.op \in {"to_son", "insert_one", "replace_one"}
     /\ ret.op = "replace_one" => ret.arg[1] # "doc"
     /\ HoldsWrongType(docs[ret.slot]))
    => /\ ret.out.raised
       /\ ret.out.exc = "TypeError"
       /\ ret.calls = <<>>

(* ---------------------------------------------------------------------
   to_mongo() as a function of the field variant and the value it holds.
   --------------------------------------------------------------------- *)
FieldVariants ==
    {"BinaryField", "BooleanField", "DecimalField", "DateTimeField",
     "EmbeddedDocumentField", "FloatField", "IntField", "ObjectIdField",
     "RegExField", "StringField", "LongField", "ListField", "TimestampField"}

(* one or more values of every class the isinstance tests and the bson
   constructors tell apart *)
PyValues ==
    {None, IntV(5), BoolV(TRUE), BoolV(FALSE), FloatV(2), StrV("7"), StrV("x"),
     StrV(""), BytesV(1), ListV(<<>>), ListV(<<IntV(1), IntV(2)>>),
     DateTimeV(1, 5), DateV(1), BinaryV(1, 0), Decimal128V(3), RegexV("x", 0),
     Int64V(9), TimestampV(1, 0), Oid(1), DocV(TestAddressInit)}

InitToMongo ==
    /\ Defaults = DefaultsInit
    /\ class_attrs = [c \in Classes |-> ClassAttrsInit(c)]
    /\ global_field_counter = Len(Source)
    /\ wrappers = Imported(Len(Source))
    /\ docs = [s \in Slots |-> NoDoc]
    /\ repo = NoRepo
    /\ db = [n \in {} |-> <<>>]
    /\ oid_counter = 0
    /\ \E k \in FieldVariants, value \in PyValues :
          ret = Call("input", k, 0, value, Return(None), Return(None))

(* k(value, 'f', False).to_mongo() *)
ToMongo ==
    /\ ret.op = "input"
    /\ ret' = Call("to_mongo", ret.cls, 0, ret.arg, Return(None),
                   to_mongo(MongoField(ret.cls, ret.arg, "f", FALSE, FALSE), NextOid))
    /\ UNCHANGED <<Defaults, class_attrs, global_field_counter, wrappers,
                   docs, repo, db, oid_counter>>

(* re.IGNORECASE, re.IGNORECASE | re.MULTILINE, and no flag *)
RegexFlags == {0, 2, 10}

(* A property declared with @regex_field(flags) whose getter returns the
   value: its field's to_mongo(), and what the loop of to_son() emits. *)
RegexToMongo(flags) ==
    /\ ret.op = "input"
    /\ ret.cls = "RegExField"
    /\ \E f \in {RegExFieldInit(ret.arg, "f", FALSE, flags)} :
          ret' = Call("regex_field", "RegExField", 0, ListV(<<ret.arg, IntV(flags)>>),
                      ToSonStep(wrappers, MongoCollectionBaseInit("Temp", FALSE),
                                ReturnObj(<<>>), f, NextOid),
                      to_mongo(f, NextOid))
    /\ UNCHANGED <<Defaults, class_attrs, global_field_counter, wrappers,
                   docs, repo, db, oid_counter>>

NextToMongo ==
    \/ ToMongo
    \/ \E flags \in RegexFlags : RegexToMongo(flags)

SpecToMongo == InitToMongo /\ [][NextToMongo]_vars

(* v is an instance of the class variant k puts on the wire; for IntField
   that is int, of which bool and Int64 are subclasses. *)
WireNative(k, v) ==
    CASE k = "BinaryField"    -> v[1] = "binary"
      [] k = "BooleanField"   -> v[1] = "bool"
      [] k = "DecimalField"   -> v[1] = "decimal128"
      [] k = "DateTimeField"  -> v[1] = "datetime"
      [] k = "EmbeddedDocumentField" -> v[1] = "doc"
      [] k = "FloatField"     -> v[1] = "float"
      [] k = "IntField"       -> IsInstanceInt(v)
      [] k = "ObjectIdField"  -> v[1] = "oid"
      [] k = "RegExField"     -> v[1] = "regex"
      [] k = "StringField"    -> v[1] = "str"
      [] k = "LongField"      -> v[1] = "int64"
      [] k = "ListField"      -> v[1] = "list"
      [] k = "TimestampField" -> v[1] = "timestamp"

(* the variants whose to_mongo ends in "... if self.value is not None else None" *)
NullPassing ==
    {"BooleanField", "FloatField", "IntField", "StringField", "LongField", "ListField"}

(* what int(), float(), Int64(), list(), Binary(), Decimal128(), Regex()
   and ObjectId() raise *)
ConversionErrors == {"TypeError", "ValueError", "InvalidOperation", "InvalidId"}

(* C19 as stated: to_mongo returns a value of the variant's wire-native
   type or fails with a type error; it never returns a value of another
   type such as null, and never puts a default in the place of a value it
   cannot coerce. *)
C19_WireNativeOrTypeError ==
    ret.op = "to_mongo"
    => IF ret.out.raised
       THEN ret.out.exc = "TypeError"
       ELSE /\ WireNative(ret.cls, ret.out.val)
            /\ ~(/\ ret.cls = "TimestampField"
                 /\ ret.arg[1] \notin {"timestamp", "datetime"})

(* C19, amended: to_mongo returns a value of the wire-native type, or
   null exactly when the value is null and the variant is one of the six
   that pass null through, or fails with the error of the conversion it
   calls (a type error, or a value or format error for a string or list
   that does not convert); str() and bool() never fail; the timestamp
   field never fails and turns every value that is neither Timestamp nor
   datetime, null included, into Timestamp(0, 0). *)
C19_ToMongo ==
    ret.op = "to_mongo"
    => LET k == ret.cls
           v == ret.arg
           out == ret.out
       IN  /\ ~out.raised
              => IF IsNone(out.val) THEN IsNone(v) /\ k \in NullPassing
                 ELSE WireNative(k, out.val)
           /\ (IsNone(v) /\ k \in NullPassing) => out = Return(None)
           /\ out.raised
              => /\ out.exc \in ConversionErrors
                 /\ out.exc # "TypeError" => v[1] \in {"str", "list"}
           /\ k \in {"StringField", "BooleanField"} => ~out.raised
           /\ k = "TimestampField"
              => /\ ~out.raised
                 /\ v[1] \notin {"timestamp", "datetime"} => out = Return(TimestampV(0, 0))

C19_Witness ==
    /\ ret.op = "to_mongo"
    /\ ret.cls = "TimestampField"
    /\ ret.arg = None
    /\ ret.out = Return(TimestampV(0, 0))

(* The wire name the property of wrapper i has in doc. *)
WireNameIn(doc, i) == ReadProperty(wrappers[i], doc).field_name

(* The properties of doc that to_son() does not skip. *)
Emitted(doc) == {i \in WrappersOf(doc.cls) : ~Skipped(doc, wrappers[i])}

(* mongo_fields of from_dict: the name-to-field dict of a new instance of c *)
Lookup(c) ==
    FieldsByName(get_mongo_fields(wrappers, MongoCollectionBaseInit(c, FALSE)), <<>>)

(* The field declared last among those of set fs that have wire name k. *)
LastNamed(doc, fs, k) ==
    CHOOSE i \in fs :
        /\ WireNameIn(doc, i) = k
        /\ \A j \in fs : WireNameIn(doc, j) = k => j <= i

(* C20 as stated: in every document no two fields share a wire name and at
   most one is a primary key; to_son() has one key for each field it does
   not skip, and from_dict's lookup one entry for each declared field. *)
C20_UniqueWireNames ==
    /\ \A s \in Slots :
          docs[s] # NoDoc
          => /\ \A i, j \in WrappersOf(docs[s].cls) :
                   i # j => WireNameIn(docs[s], i) # WireNameIn(docs[s], j)
             /\ Cardinality(PrimaryKeys(docs[s].cls)) <= 1
    /\ (ret.op = "to_son" /\ ~ret.out.raised)
       => Len(ret.out.val) = Cardinality(Emitted(docs[ret.slot]))
    /\ ret.op = "from_dict"
       => Len(Lookup(ret.cls)) = Cardinality(WrappersOf(ret.cls))

(* C20, amended: nothing keeps two fields of a class from having the same
   wire name.  to_son() has one key for each wire name among the fields it
   does not skip and from_dict's lookup one entry for each wire name among
   the declared fields, which is one per field exactly when the wire names
   differ pairwise; of fields that share a wire name the lookup holds the
   one declared last. *)
C20_OneKeyPerWireName ==
    /\ (ret.op = "to_son" /\ ~ret.out.raised)
       => LET doc == docs[ret.slot]
              names == {WireNameIn(doc, i) : i \in Emitted(doc)}
          IN  /\ {ret.out.val[n][1] : n \in 1..Len(ret.out.val)} = names
              /\ Len(ret.out.val) = Cardinality(names)
              /\ (Len(ret.out.val) = Cardinality(Emitted(doc)))
                 <=> \A i, j \in Emitted(doc) :
                        i # j => WireNameIn(doc, i) # WireNameIn(doc, j)
    /\ ret.op = "from_dict"
       => LET new == MongoCollectionBaseInit(ret.cls, FALSE)
              all == WrappersOf(ret.cls)
              names == {WireNameIn(new, i) : i \in all}
          IN  /\ {Lookup(ret.cls)[n][1] : n \in 1..Len(Lookup(ret.cls))} = names
              /\ Len(Lookup(ret.cls)) = Cardinality(names)
              /\ \A k \in names :
                    SonGet(Lookup(ret.cls), k)
                      = ReadProperty(wrappers[LastNamed(new, all, k)], new)

C20_Witness ==
    /\ ret.op = "to_son"
    /\ ret.cls = "Dup"
    /\ Cardinality(Emitted(docs[ret.slot])) = 2
    /\ ret.out = ReturnObj(<<<<"_id", docs[ret.slot].attrs["_alias"]>>>>)

(* C21: a regex field declared with flags F that holds a string pattern p
   converts to the wire regex with pattern p and flags F, in to_mongo() and
   in the entry to_son() emits; a wire regex is returned as it is. *)
C21_RegexFlags ==
    ret.op = "regex_field"
    => LET value == ret.arg[2][1]
           F == ret.arg[2][2][2]
       IN  /\ value[1] = "str"
              => /\ ret.out = Return(RegexV(value[2], F))
                 /\ ret.rec = ReturnObj(<<<<"f", RegexV(value[2], F)>>>>)
           /\ value[1] = "regex"
              => /\ ret.out = Return(value)
                 /\ ret.rec = ReturnObj(<<<<"f", value>>>>)

(* C22: insert_one and replace_one with a document that is not an instance
   of the repository's bound type raise TypeError, make no driver call, and
   leave the collections and the document as they were. *)
C22_TypeChecked ==
    [][(/\ ret'.op \in {"insert_one", "replace_one"}
        /\ docs[ret'.slot].cls # repo.concrete_type)
       => /\ ret'.out = Raise("TypeError")
          /\ ret'.calls = <<>>
          /\ db' = db
          /\ docs' = docs
      ]_vars

C22_Witness ==
    /\ ret.op = "replace_one"
    /\ docs[ret.slot].cls = "Event"
    /\ repo.concrete_type = "TestPerson"
    /\ RepoRecords # <<>>
    /\ ret.out = Raise("TypeError")
    /\ ret.calls = <<>>

(* C23 as stated: for a bound type that declares no primary key, a
   find_one for which the driver finds a stored record raises KeyError. *)
C23_NoPrimaryKey ==
    (/\ ret.op = "find_one"
     /\ ~ret.rec.isnone
     /\ PrimaryKeys(repo.concrete_type) = {})
    => ret.out = Raise("KeyError")

(* C23, amended: a find_one for which the driver finds a record stored by
   insert_one raises KeyError exactly when no field of the bound type has
   the wire name "_id", be it as primary key or by a field_name override. *)
C23_NoIdentifierField ==
    (ret.op = "find_one" /\ ~ret.rec.isnone)
    => ((ret.out = Raise("KeyError")) <=> "_id" \notin DeclaredWireNames(repo.concrete_type))

C23_Witness ==
    /\ ret.op = "find_one"
    /\ repo.concrete_type = "Temp"
    /\ ~ret.rec.isnone
    /\ \E i \in 1..Len(RepoRecords) : ret.rec.val = RepoRecords[i]
    /\ ret.out = Raise("KeyError")

(* C24: a == b and b == a have the same outcome, for documents of one class
   and of different classes. *)
C24_Symmetric ==
    ret.op = "__eq__" => ret.out = ret.rec

====
